---- MODULE Spec2Model ----
(***************************************************************************)
(* Crypto scalper engine (python_engine/crypto): the risk manager          *)
(* (risk_manager.py) and the engine orchestrator (scalper_engine.py)       *)
(* driven by the gateway's streaming dispatch (bithumb_gateway.py).        *)
(*                                                                         *)
(* Units.  Money and prices are integers in KRW.  A quantity is an integer *)
(* number of 1/QtyScale coins.  A ratio the code holds as a float is held  *)
(* in the unit named beside its definition (percent, basis points,         *)
(* thousandths), so that every comparison of the code is an exact integer  *)
(* comparison.  The clock is in seconds since the engine was constructed;  *)
(* the initial cooldown_until (0.0 in the code, i.e. 1970) is "not later   *)
(* than the start".                                                        *)
(***************************************************************************)
EXTENDS Integers, Sequences, FiniteSets, TLC

(* ---------------------------------------------------------------- config *)
MAX_TOTAL_CAPITAL_KRW == 50000000
\* percent
MIN_CASH_RESERVE_RATIO == 20
\* percent
MAX_SINGLE_POSITION_RATIO == 20
MAX_CONCURRENT_POSITIONS == 3
\* percent (negative)
DAILY_CVAR_LIMIT == -3
OBI_DEPTH_LEVELS == 10
\* OBI_THRESHOLD = 0.60, in percent
OBI_THRESHOLD == 60
OBI_LOOKBACK == 20
\* deque(maxlen=200) of the OBIs of a symbol
OBI_HISTORY_MAXLEN == 200
VPIN_BUCKET_SIZE == 50
VPIN_NUM_BUCKETS == 50
\* vpin_buckets is a deque(maxlen=100)
VPIN_BUCKETS_MAXLEN == 100
\* STOP_LOSS_MULTIPLIER = 2.0
STOP_LOSS_MULTIPLIER == 2
\* TRAILING_ACTIVATION_PCT = 0.015, in thousandths
TRAILING_ACTIVATION_PCT == 15
\* TRAILING_OFFSET_MULTIPLIER = 1.5, in halves
TRAILING_OFFSET_MULTIPLIER == 3
\* KELLY_FRACTION = 0.25, in basis points
KELLY_FRACTION == 2500
KELLY_MIN_TRADES_FOR_CALC == 20
MAX_CONSECUTIVE_LOSSES == 3
COOLDOWN_SECONDS == 1800
\* deque(maxlen=1000) of trade records, deque(maxlen=100) of daily returns
TRADE_HISTORY_MAXLEN == 1000
DAILY_HISTORY_MAXLEN == 100
\* update_price floors the realized volatility at 0.005, in thousandths
RV_FLOOR == 5

TARGET_SYMBOLS == {"BTC", "ETH", "XRP", "SOL", "DOGE"}
\* hundredths
ENSEMBLE_WEIGHTS ==
    [obi |-> 30, vpin |-> 15, momentum |-> 15, regime |-> 15, sentiment |-> 10,
     funding |-> 10, volatility |-> 5]
\* kelly_mult in quarters, cash_ratio in percent, trailing_mult in halves
REGIME_PARAMS ==
    [r \in 0..2 |->
        IF r = 0 THEN [name |-> "BULLISH", kelly_mult |-> 4, cash_ratio |-> 20, trailing_mult |-> 4]
        ELSE IF r = 1 THEN [name |-> "SIDEWAYS", kelly_mult |-> 2, cash_ratio |-> 40, trailing_mult |-> 3]
        ELSE [name |-> "BEARISH", kelly_mult |-> 1, cash_ratio |-> 80, trailing_mult |-> 2]]

(* ---------------------------------------------------------------- bounds *)
\* entries (registrations) a behaviour may make
MaxEntries == 4
\* ... in the behaviours that vary the sizing inputs
SizingEntries == 2
\* ... and in those of two handlers on two symbols
ConcEntries == 3
\* the clock advances in steps of ClockStep seconds, MaxClockSteps times
ClockStep == 900
MaxClockSteps == 2
\* ticks in one transaction message
MaxTxList == 2
\* daily resets a behaviour may make
MaxResets == 1
\* how many times slower the second run of a replay receives the same events
ReplaySlowdown == 2
\* closes a caller of the risk manager may make
RiskCloses == 3
\* ... in the behaviours that go past a cooldown
BreakerCloses == 4
\* ... and in those that follow one position through its failed exits
RetryEntries == 2
\* closed trades in the behaviours of concurrent handlers on four symbols
RaceCloses == 1
\* BTC ticks the two runs take after the one they entered on, and ETH ticks
\* the second run takes
MaxTicksOfA == 2
MaxTicksOfB == 8
\* reconnect waits the streaming loop may make, and messages one connection delivers
MaxWaits == 8
MaxMessages == 2
\* handlers a caller of on() may add to the engine's own
MaxHandlers == 2
\* ticks in one transaction message handled await by await
MaxTicks == 3
\* ... in the behaviours that follow one position's prices
TrailCloses == 1
\* levels on a side of the order books that are enumerated level by level
MaxLevels == 2
\* OFIs a symbol's history holds before its callers stop
MaxOfi == 2
\* transactions on a tape
VpinTrades == 2600
\* the closed trades the histories that size by Kelly start with, and end with
KellyTradesMin == 19
KellyTradesMax == 21
\* quantities are held in 1/QtyScale coins
QtyScale == 100
\* the signals of the ensemble are held in 1/SignalScale
SignalScale == 10

\* the transaction handlers: the engine runs handler 1 alone
Tasks == {1, 2}

Max(a, b) == IF a >= b THEN a ELSE b
Min(a, b) == IF a <= b THEN a ELSE b
\* p percent of the total capital (the capital is a multiple of 100)
CapitalPct(p) == (MAX_TOTAL_CAPITAL_KRW \div 100) * p

VARIABLES
    positions,           \* RiskManager._positions: symbol -> Position
    trade_history,       \* RiskManager._trade_history
    daily_trades,        \* RiskManager._daily_trades
    daily_pnl,           \* RiskManager._daily_pnl
    daily_pnl_history,   \* RiskManager._daily_pnl_history (basis points)
    consecutive_losses,  \* RiskManager._consecutive_losses
    cooldown_until,      \* RiskManager._cooldown_until
    notifications,       \* emergency-stop notifications the breaker has created
    now,                 \* ts_now()
    keys_configured,     \* BITHUMB_API_KEY and BITHUMB_SECRET_KEY are both set
    entry_locks,         \* CryptoScalperEngine._entry_locks: symbol -> holder (0: free)
    pc,                  \* where each transaction handler stands
    frame,               \* the handler's locals
    inflight,            \* the private request each handler is awaiting
    can_result,          \* what the handler's last can_enter call returned
    exit_signal,         \* what the handler's last update_price call returned
    order_result,        \* the status of the handler's last place_order
    update_call,         \* the last update_price call made on the risk manager directly
    stats,               \* what the last get_stats call returned
    micro,               \* MarketMicrostructure._states: symbol -> SymbolMicroState
    book_call,           \* the last update_orderbook call and what it returned
    tape,                \* the transactions the stream delivers, and how many it has
    score_call,          \* the last compute_final_score call and what it returned
    ws,                  \* BithumbGateway's streaming loop: where it is, _ws_connected,
                         \* _reconnect_delay and the delays it has slept
    private_call,        \* the last private call made on the gateway directly
    public_call,         \* the last public call made on the gateway directly
    initial_data,        \* _load_initial_data: the symbol it is at, the symbols whose
                         \* candles it has loaded, and whether it has raised
    running,             \* CryptoScalperEngine._running
    funding_loop,        \* where _funding_rate_loop stands
    tick_run,            \* _on_transaction by its awaits: the message, the tick and
                         \* the await it is at, the last tick each estimator has
                         \* taken in, and the awaits that have returned or raised
    entry_call,          \* the last _check_entry call made on the engine directly:
                         \* the VPIN it read, the ensemble's answer and whether it
                         \* placed a bid
    estimators,          \* the VolatilityModel and the RegimeDetector, the prices
                         \* they have been fed, and the last get_signal call made
                         \* on the volatility model
    risk_call,           \* the last daily_reset or close_position call made on the
                         \* risk manager directly, and what it returned
    runs                 \* two runs of the engine side by side, fed the same BTC
                         \* ticks: of each its estimators' windows, its BTC position,
                         \* the ticks it has taken and its exit decisions on BTC

riskVars == <<positions, trade_history, daily_trades, daily_pnl, daily_pnl_history,
              consecutive_losses, cooldown_until, notifications>>
taskVars == <<entry_locks, pc, frame, inflight, can_result, exit_signal, order_result>>
\* what the callers outside the engine's handlers hold
\* what the program holds outside the engine's components
hostRest == <<private_call, public_call, initial_data, running, funding_loop, tick_run,
              entry_call, estimators>>
hostVars == <<hostRest, risk_call, runs>>
callVars == <<update_call, stats, micro, book_call, tape, score_call, ws, hostVars>>
vars == <<positions, trade_history, daily_trades, daily_pnl, daily_pnl_history,
          consecutive_losses, cooldown_until, notifications, now, keys_configured,
          entry_locks, pc, frame, inflight,
          can_result, exit_signal, order_result, update_call, stats,
          micro, book_call, tape, score_call, ws, hostVars>>

(* ---------------------------------------------------------- risk manager *)
\* entry_time (Position) and timestamp (TradeRecord) are written and never
\* read by the program; the records below carry the fields that are read.
Position(symbol, entry_price, quantity) ==
    [symbol |-> symbol, entry_price |-> entry_price, quantity |-> quantity,
     highest_price |-> entry_price, trailing_active |-> FALSE]

Held == DOMAIN positions

RECURSIVE SumPnlPct(_, _)
SumPnlPct(h, I) ==
    IF I = {} THEN 0
    ELSE LET i == CHOOSE x \in I : TRUE IN h[i].pnl_pct + SumPnlPct(h, I \ {i})

\* the Kelly fraction that is computed from 21 trades on
CalcKellyFraction_FromTwentyOne(h) ==
    IF Len(h) <= KELLY_MIN_TRADES_FOR_CALC THEN KELLY_FRACTION
    ELSE LET wins == {i \in 1..Len(h) : h[i].pnl > 0}
             losses == {i \in 1..Len(h) : h[i].pnl <= 0}
             sw == SumPnlPct(h, wins)
             sl == 0 - SumPnlPct(h, losses)
         IN  IF wins = {} \/ losses = {} THEN KELLY_FRACTION
             ELSE IF sl = 0 THEN KELLY_FRACTION
             ELSE LET fractional == (KELLY_FRACTION * Cardinality(wins) * (sw - sl))
                                        \div (Len(h) * sw)
                  IN  Max(0, Min(fractional, MAX_SINGLE_POSITION_RATIO * 100))

\* The Kelly fraction in basis points.  With W wins, N trades, mean win
\* sw/W and mean loss sl/L:  (b p - q)/b = p - q/b = W (sw - sl) / (N sw).
CalcKellyFraction(h) ==
    IF Len(h) < KELLY_MIN_TRADES_FOR_CALC THEN KELLY_FRACTION
    ELSE LET wins == {i \in 1..Len(h) : h[i].pnl > 0}
             losses == {i \in 1..Len(h) : h[i].pnl <= 0}
             sw == SumPnlPct(h, wins)
             sl == 0 - SumPnlPct(h, losses)
         IN  IF wins = {} \/ losses = {} THEN KELLY_FRACTION
             ELSE IF sl = 0 THEN KELLY_FRACTION
             ELSE LET fractional == (KELLY_FRACTION * Cardinality(wins) * (sw - sl))
                                        \div (Len(h) * sw)
                  IN  Max(0, Min(fractional, MAX_SINGLE_POSITION_RATIO * 100))

Refusal(reason) == [can |-> FALSE, reason |-> reason, max_amount |-> 0]

\* can_enter past its refusals: the reserve, the investable cash and the size
EntrySize(available_cash, regime_cash_ratio) ==
    LET effective_reserve == Max(MIN_CASH_RESERVE_RATIO, regime_cash_ratio)
        min_cash == CapitalPct(effective_reserve)
        investable == available_cash - min_cash
        kelly_frac == CalcKellyFraction(trade_history)
        max_amount == Min(investable,
                          Min((MAX_TOTAL_CAPITAL_KRW \div 10000) * kelly_frac,
                              CapitalPct(MAX_SINGLE_POSITION_RATIO)))
    IN  IF investable <= 0 THEN Refusal("cash")
        ELSE [can |-> TRUE, reason |-> "ok", max_amount |-> max_amount]

\* can_enter without its check of the number of positions
CanEnter_NoMaxPositions(symbol, available_cash, regime_cash_ratio) ==
    IF now < cooldown_until THEN Refusal("cooldown")
    ELSE IF daily_pnl <= CapitalPct(DAILY_CVAR_LIMIT) THEN Refusal("cvar")
    ELSE IF symbol \in Held THEN Refusal("held")
    ELSE EntrySize(available_cash, regime_cash_ratio)

\* can_enter without its check of the cooldown
CanEnter_NoCooldown(symbol, available_cash, regime_cash_ratio) ==
    IF daily_pnl <= CapitalPct(DAILY_CVAR_LIMIT) THEN Refusal("cvar")
    ELSE IF Cardinality(Held) >= MAX_CONCURRENT_POSITIONS THEN Refusal("max_positions")
    ELSE IF symbol \in Held THEN Refusal("held")
    ELSE EntrySize(available_cash, regime_cash_ratio)

\* can_enter that looks for the symbol before it counts the positions
CanEnter_HeldFirst(symbol, available_cash, regime_cash_ratio) ==
    IF now < cooldown_until THEN Refusal("cooldown")
    ELSE IF daily_pnl <= CapitalPct(DAILY_CVAR_LIMIT) THEN Refusal("cvar")
    ELSE IF symbol \in Held THEN Refusal("held")
    ELSE IF Cardinality(Held) >= MAX_CONCURRENT_POSITIONS THEN Refusal("max_positions")
    ELSE EntrySize(available_cash, regime_cash_ratio)

\* can_enter without its check of the day's loss
CanEnter_NoDailyLimit(symbol, available_cash, regime_cash_ratio) ==
    IF now < cooldown_until THEN Refusal("cooldown")
    ELSE IF Cardinality(Held) >= MAX_CONCURRENT_POSITIONS THEN Refusal("max_positions")
    ELSE IF symbol \in Held THEN Refusal("held")
    ELSE EntrySize(available_cash, regime_cash_ratio)

CanEnter(symbol, available_cash, regime_cash_ratio) ==
    IF now < cooldown_until THEN Refusal("cooldown")
    ELSE IF daily_pnl <= CapitalPct(DAILY_CVAR_LIMIT) THEN Refusal("cvar")
    ELSE IF Cardinality(Held) >= MAX_CONCURRENT_POSITIONS THEN Refusal("max_positions")
    ELSE IF symbol \in Held THEN Refusal("held")
    ELSE EntrySize(available_cash, regime_cash_ratio)

RegisterPosition(symbol, entry_price, quantity) ==
    positions' = [s \in Held \cup {symbol} |->
                    IF s = symbol THEN Position(symbol, entry_price, quantity)
                    ELSE positions[s]]

Pnl(pos, exit_price) == ((exit_price - pos.entry_price) * pos.quantity) \div QtyScale
\* basis points
PnlPct(pos, exit_price) == ((exit_price - pos.entry_price) * 10000) \div pos.entry_price

TradeRecord(pos, exit_price) ==
    [symbol |-> pos.symbol, side |-> "long", entry_price |-> pos.entry_price,
     exit_price |-> exit_price, quantity |-> pos.quantity,
     pnl |-> Pnl(pos, exit_price), pnl_pct |-> PnlPct(pos, exit_price)]

\* deque(maxlen=n).append
Push(q, x, n) == IF Len(q) >= n THEN Append(Tail(q), x) ELSE Append(q, x)

\* the breaker that trips only as the counter reaches the limit
BreakerTrips_OnlyAtLimit(losses) == losses = MAX_CONSECUTIVE_LOSSES

BreakerTrips(losses) == losses >= MAX_CONSECUTIVE_LOSSES

\* the counter that takes a close at no gain for a loss
LossesAfter_ZeroCounts(pnl, losses) == IF pnl <= 0 THEN losses + 1 ELSE 0

LossesAfter(pnl, losses) == IF pnl < 0 THEN losses + 1 ELSE 0

\* close_position that counts the pnl into the day but keeps no record of
\* the trade in the day's list
ClosePosition_DayListAside(symbol, exit_price) ==
    IF symbol \notin Held THEN UNCHANGED riskVars
    ELSE LET pos == positions[symbol]
             record == TradeRecord(pos, exit_price)
             losses == LossesAfter(record.pnl, consecutive_losses)
             trips == record.pnl < 0 /\ BreakerTrips(losses)
         IN  /\ positions' = [s \in Held \ {symbol} |-> positions[s]]
             /\ trade_history' = Push(trade_history, record, TRADE_HISTORY_MAXLEN)
             /\ daily_trades' = daily_trades
             /\ daily_pnl' = daily_pnl + record.pnl
             /\ consecutive_losses' = losses
             /\ cooldown_until' = IF trips THEN now + COOLDOWN_SECONDS ELSE cooldown_until
             /\ notifications' = IF trips THEN notifications + 1 ELSE notifications
             /\ UNCHANGED daily_pnl_history

\* close_position that takes a close of nothing for one more loss
ClosePosition_MissingIsLoss(symbol, exit_price) ==
    IF symbol \notin Held
    THEN /\ consecutive_losses' = consecutive_losses + 1
         /\ UNCHANGED <<positions, trade_history, daily_trades, daily_pnl, daily_pnl_history,
                        cooldown_until, notifications>>
    ELSE LET pos == positions[symbol]
             record == TradeRecord(pos, exit_price)
             losses == LossesAfter(record.pnl, consecutive_losses)
             trips == record.pnl < 0 /\ BreakerTrips(losses)
         IN  /\ positions' = [s \in Held \ {symbol} |-> positions[s]]
             /\ trade_history' = Push(trade_history, record, TRADE_HISTORY_MAXLEN)
             /\ daily_trades' = Append(daily_trades, record)
             /\ daily_pnl' = daily_pnl + record.pnl
             /\ consecutive_losses' = losses
             /\ cooldown_until' = IF trips THEN now + COOLDOWN_SECONDS ELSE cooldown_until
             /\ notifications' = IF trips THEN notifications + 1 ELSE notifications
             /\ UNCHANGED daily_pnl_history

ClosePosition(symbol, exit_price) ==
    IF symbol \notin Held THEN UNCHANGED riskVars
    ELSE LET pos == positions[symbol]
             record == TradeRecord(pos, exit_price)
             losses == LossesAfter(record.pnl, consecutive_losses)
             trips == record.pnl < 0 /\ BreakerTrips(losses)
         IN  /\ positions' = [s \in Held \ {symbol} |-> positions[s]]
             /\ trade_history' = Push(trade_history, record, TRADE_HISTORY_MAXLEN)
             /\ daily_trades' = Append(daily_trades, record)
             /\ daily_pnl' = daily_pnl + record.pnl
             /\ consecutive_losses' = losses
             /\ cooldown_until' = IF trips THEN now + COOLDOWN_SECONDS ELSE cooldown_until
             /\ notifications' = IF trips THEN notifications + 1 ELSE notifications
             /\ UNCHANGED daily_pnl_history

\* update_price that keeps the last price as the highest
UpdatePrice_TracksLast(pos, current_price, rv_in, trailing_mult) ==
    LET pnl_pct == PnlPct(pos, current_price)
        rv == Max(rv_in, RV_FLOOR)
        stopped == current_price * 1000 <= pos.entry_price * (1000 - STOP_LOSS_MULTIPLIER * rv)
        activates == (current_price - pos.entry_price) * 1000
                        >= TRAILING_ACTIVATION_PCT * pos.entry_price
        trailing == pos.trailing_active \/ activates
    IN  IF stopped
        THEN [pos |-> [pos EXCEPT !.highest_price = current_price],
              action |-> "stop_loss", pnl_pct |-> pnl_pct]
        ELSE [pos |-> [pos EXCEPT !.highest_price = current_price,
                                  !.trailing_active = trailing],
              action |-> "none", pnl_pct |-> pnl_pct]

\* update_price that tests the trailing stop before the stop loss
UpdatePrice_TrailingFirst(pos, current_price, rv_in, trailing_mult) ==
    LET pnl_pct == PnlPct(pos, current_price)
        highest == Max(pos.highest_price, current_price)
        rv == Max(rv_in, RV_FLOOR)
        stopped == current_price * 1000 <= pos.entry_price * (1000 - STOP_LOSS_MULTIPLIER * rv)
        activates == (current_price - pos.entry_price) * 1000
                        >= TRAILING_ACTIVATION_PCT * pos.entry_price
        trailing == pos.trailing_active \/ activates
        trailed == current_price * 4000
                      <= highest * (4000 - TRAILING_OFFSET_MULTIPLIER * rv * trailing_mult)
    IN  IF trailing /\ trailed
        THEN [pos |-> [pos EXCEPT !.highest_price = highest, !.trailing_active = trailing],
              action |-> "trailing_stop", pnl_pct |-> pnl_pct]
        ELSE IF stopped
        THEN [pos |-> [pos EXCEPT !.highest_price = highest],
              action |-> "stop_loss", pnl_pct |-> pnl_pct]
        ELSE [pos |-> [pos EXCEPT !.highest_price = highest, !.trailing_active = trailing],
              action |-> "none", pnl_pct |-> pnl_pct]

\* update_price on a held position: the position as it is left, and the
\* returned action ("none" for None).  rv in thousandths, trailing_mult in halves.
UpdatePrice(pos, current_price, rv_in, trailing_mult) ==
    LET pnl_pct == PnlPct(pos, current_price)
        highest == Max(pos.highest_price, current_price)
        rv == Max(rv_in, RV_FLOOR)
        stopped == current_price * 1000 <= pos.entry_price * (1000 - STOP_LOSS_MULTIPLIER * rv)
        activates == (current_price - pos.entry_price) * 1000
                        >= TRAILING_ACTIVATION_PCT * pos.entry_price
        trailing == pos.trailing_active \/ activates
        trailed == current_price * 4000
                      <= highest * (4000 - TRAILING_OFFSET_MULTIPLIER * rv * trailing_mult)
    IN  IF stopped
        THEN [pos |-> [pos EXCEPT !.highest_price = highest],
              action |-> "stop_loss", pnl_pct |-> pnl_pct]
        ELSE [pos |-> [pos EXCEPT !.highest_price = highest, !.trailing_active = trailing],
              action |-> IF trailing /\ trailed THEN "trailing_stop" ELSE "none",
              pnl_pct |-> pnl_pct]

\* daily_reset that leaves the counter of consecutive losses alone
DailyResetState_KeepsLosses ==
    /\ Len(daily_pnl_history) < MaxResets
    /\ daily_pnl_history' = Push(daily_pnl_history,
                                 daily_pnl \div (MAX_TOTAL_CAPITAL_KRW \div 10000),
                                 DAILY_HISTORY_MAXLEN)
    /\ daily_pnl' = 0
    /\ daily_trades' = <<>>
    /\ UNCHANGED <<positions, trade_history, consecutive_losses, cooldown_until,
                   notifications>>

\* what daily_reset does to the risk manager
DailyResetState ==
    /\ Len(daily_pnl_history) < MaxResets
    /\ daily_pnl_history' = Push(daily_pnl_history,
                                 daily_pnl \div (MAX_TOTAL_CAPITAL_KRW \div 10000),
                                 DAILY_HISTORY_MAXLEN)
    /\ daily_pnl' = 0
    /\ daily_trades' = <<>>
    /\ consecutive_losses' = 0
    /\ UNCHANGED <<positions, trade_history, cooldown_until, notifications>>

\* daily_reset called by a caller that drops the summary
DailyReset ==
    /\ DailyResetState
    /\ UNCHANGED <<now, keys_configured, taskVars, callVars>>

\* the days _calc_daily_cvar needs
CVAR_MIN_DAYS == 10

RECURSIVE MinSeq(_)
MinSeq(q) == IF Len(q) = 1 THEN Head(q) ELSE Min(Head(q), MinSeq(Tail(q)))

\* _calc_daily_cvar on a history of up to 20 days: the 5th percentile then
\* lies under the second lowest day, and the tail is the lowest day
CalcDailyCvar(history) ==
    IF Len(history) < CVAR_MIN_DAYS THEN 0 ELSE MinSeq(history)

\* the summary daily_reset returns, built after the day is appended to the
\* history and before the day's fields are cleared
DailySummary(history) ==
    [daily_pnl |-> daily_pnl,
     daily_pnl_pct |-> daily_pnl \div (MAX_TOTAL_CAPITAL_KRW \div 10000),
     trades |-> Len(daily_trades),
     wins |-> Cardinality({i \in 1..Len(daily_trades) : daily_trades[i].pnl > 0}),
     losses |-> Cardinality({i \in 1..Len(daily_trades) : daily_trades[i].pnl <= 0}),
     cvar_95 |-> CalcDailyCvar(history)]

\* no call yet
NoRiskCall ==
    [fn |-> "-", symbol |-> "-", is_cooldown |-> FALSE, record |-> <<>>, summary |-> <<>>]

AdvanceClock ==
    /\ now + ClockStep <= ClockStep * MaxClockSteps
    /\ now' = now + ClockStep
    /\ UNCHANGED <<riskVars, keys_configured, taskVars, callVars>>

(* -------------------------------------------------------- microstructure *)
\* A ratio the code holds as a float, as the exact fraction num/den (den > 0).
Frac(num, den) == [num |-> num, den |-> den]
Abs(x) == IF x < 0 THEN 0 - x ELSE x

\* Of SymbolMicroState: the OBI with its history and moving average, the OFI with its history and the top of book it
\* was last taken from, the open bucket of trades (how many, and their buy and
\* sell volumes), the closed buckets and the VPIN.  Quantities are in
\* 1/QtyScale coins.
NewMicroState ==
    [current_obi |-> Frac(0, 1), obi_history |-> <<>>, obi_sma |-> Frac(0, 1),
     ofi_history |-> <<>>, current_ofi |-> 0,
     prev_best_bid_qty |-> 0, prev_best_ask_qty |-> 0,
     prev_best_bid_price |-> 0, prev_best_ask_price |-> 0,
     trade_bucket |-> [n |-> 0, buy_volume |-> 0, sell_volume |-> 0],
     vpin_buckets |-> <<>>, current_vpin |-> Frac(0, 1), last_price |-> 0]

\* no update_orderbook call yet
NoBook ==
    [symbol |-> "-", bids |-> <<>>, asks |-> <<>>, best_bid_price |-> 0,
     best_ask_price |-> 0, obi |-> Frac(0, 1), signal |-> <<>>]
\* a stream that delivers nothing
NoTape == [symbol |-> "-", period |-> 1, buys |-> 0, qty_bid |-> 0, qty_ask |-> 0, pos |-> 0]

InitMicro ==
    /\ micro = [s \in TARGET_SYMBOLS |-> NewMicroState]
    /\ book_call = NoBook
    /\ tape = NoTape

\* sum(q for q in quantities[:depth])
RECURSIVE SumDepth(_, _)
SumDepth(quantities, depth) ==
    IF depth = 0 THEN 0 ELSE SumDepth(quantities, depth - 1) + quantities[depth]

\* the imbalance taken over the bid total alone
Obi_OverBids(total_bid, total_ask) == Frac(total_bid - total_ask, Max(total_bid, 1))

Obi(total_bid, total_ask) == Frac(total_bid - total_ask, total_bid + total_ask)

\* the levels of a side of the book, best first: the quantities given, at
\* prices that start at price and move away from it by step
Levels(quantities, price, step) ==
    [i \in 1..Len(quantities) |->
        [price |-> price + (i - 1) * step, quantity |-> quantities[i]]]

\* [float(l.get("quantity", 0)) for l in levels]
Quantities(levels) == [i \in 1..Len(levels) |-> levels[i].quantity]

\* the change of the best bid against the top of book the state holds
DeltaBid(state, best_bid_price, best_bid_qty) ==
    IF best_bid_price > state.prev_best_bid_price THEN best_bid_qty
    ELSE IF best_bid_price = state.prev_best_bid_price
    THEN best_bid_qty - state.prev_best_bid_qty
    ELSE 0 - state.prev_best_bid_qty

\* the change of the best ask taken with the rule of the bid side
DeltaAsk_AsTheBid(state, best_ask_price, best_ask_qty) ==
    IF best_ask_price > state.prev_best_ask_price THEN best_ask_qty
    ELSE IF best_ask_price = state.prev_best_ask_price
    THEN best_ask_qty - state.prev_best_ask_qty
    ELSE 0 - state.prev_best_ask_qty

\* the change of the best ask against the top of book the state holds
DeltaAsk(state, best_ask_price, best_ask_qty) ==
    IF best_ask_price < state.prev_best_ask_price THEN best_ask_qty
    ELSE IF best_ask_price = state.prev_best_ask_price
    THEN best_ask_qty - state.prev_best_ask_qty
    ELSE 0 - state.prev_best_ask_qty

\* the OFI part of update_orderbook: the state after the top of book given
OfiAfter(state, best_bid_price, best_bid_qty, best_ask_price, best_ask_qty) ==
    LET ofi == DeltaBid(state, best_bid_price, best_bid_qty)
                  - DeltaAsk(state, best_ask_price, best_ask_qty)
        taken == IF state.prev_best_bid_price > 0
                 THEN [state EXCEPT !.current_ofi = ofi,
                                    !.ofi_history = Append(@, ofi)]
                 ELSE state
    IN  [taken EXCEPT !.prev_best_bid_price = best_bid_price,
                      !.prev_best_ask_price = best_ask_price,
                      !.prev_best_bid_qty = best_bid_qty,
                      !.prev_best_ask_qty = best_ask_qty]

\* list(q)[-n:]
LastN(q, n) == IF Len(q) <= n THEN q ELSE SubSeq(q, Len(q) - n + 1, Len(q))

RECURSIVE Gcd(_, _)
Gcd(a, b) == IF b = 0 THEN a ELSE Gcd(b, a % b)
\* the same ratio in lowest terms
Lowest(f) == LET g == Gcd(Abs(f.num), f.den) IN Frac(f.num \div g, f.den \div g)
\* the sum of the ratios of q, taken value by value: each of the values in
\* S as many times as q holds it
RECURSIVE SumValues(_, _)
SumValues(S, q) ==
    IF S = {} THEN Frac(0, 1)
    ELSE LET v == CHOOSE x \in S : TRUE
             n == Cardinality({i \in DOMAIN q : q[i] = v})
             s == SumValues(S \ {v}, q)
         IN  Lowest(Frac(n * v.num * s.den + s.num * v.den, v.den * s.den))
SumFrac(q) == SumValues({q[i] : i \in DOMAIN q}, q)
\* np.mean of a non-empty list of ratios
MeanFrac(q) == LET s == SumFrac(q) IN Lowest(Frac(s.num, s.den * Len(q)))

\* the OBI part of update_orderbook: the state with the OBI taken in
ObiAfter(state, obi) ==
    LET appended == [state EXCEPT !.current_obi = obi,
                                  !.obi_history = Push(@, obi, OBI_HISTORY_MAXLEN)]
    IN  IF Len(appended.obi_history) >= OBI_LOOKBACK
        THEN [appended EXCEPT !.obi_sma = MeanFrac(LastN(appended.obi_history, OBI_LOOKBACK))]
        ELSE appended

\* a ratio against a number of hundredths
FracAtLeast(f, pct) == f.num * 100 >= pct * f.den
FracAtMost(f, pct) == f.num * 100 <= pct * f.den
\* f > g + tenths / 10 and f < g - tenths / 10
FracOver(f, g, tenths) == f.num * g.den * 10 > (g.num * 10 + tenths * g.den) * f.den
FracUnder(f, g, tenths) == f.num * g.den * 10 < (g.num * 10 - tenths * g.den) * f.den

\* get_obi_signal on the state of a symbol
GetObiSignal(state) ==
    LET obi == state.current_obi
    IN  [obi |-> obi, obi_sma |-> state.obi_sma, ofi |-> state.current_ofi,
         signal |-> IF obi.num > obi.den THEN Frac(1, 1)
                    ELSE IF obi.num < 0 - obi.den THEN Frac(-1, 1) ELSE obi,
         is_strong_buy |-> FracAtLeast(obi, OBI_THRESHOLD) /\ FracOver(obi, state.obi_sma, 1),
         is_strong_sell |-> FracAtMost(obi, 0 - OBI_THRESHOLD)
                              /\ FracUnder(obi, state.obi_sma, 1)]

\* update_orderbook that stores the 0 it returns for a book it cannot use
UpdateOrderbook_StoresZero(symbol, bids, asks) ==
    LET depth == Min(OBI_DEPTH_LEVELS, Min(Len(bids), Len(asks)))
        total_bid == SumDepth(Quantities(bids), depth)
        total_ask == SumDepth(Quantities(asks), depth)
        call == [symbol |-> symbol, bids |-> Quantities(bids), asks |-> Quantities(asks),
                 best_bid_price |-> IF bids = <<>> THEN 0 ELSE bids[1].price,
                 best_ask_price |-> IF asks = <<>> THEN 0 ELSE asks[1].price,
                 obi |-> Frac(0, 1), signal |-> <<>>]
    IN  IF depth = 0 \/ total_bid + total_ask = 0
        THEN /\ book_call' = call
             /\ micro' = [micro EXCEPT ![symbol].current_obi = Frac(0, 1)]
        ELSE LET obi == Obi(total_bid, total_ask)
                 state == ObiAfter(micro[symbol], obi)
             IN  /\ book_call' = [call EXCEPT !.obi = obi]
                 /\ micro' = [micro EXCEPT ![symbol] =
                                  OfiAfter(state, bids[1].price, bids[1].quantity,
                                           asks[1].price, asks[1].quantity)]

\* update_orderbook: bids and asks are the levels, best first, each a price
\* and a quantity
UpdateOrderbook(symbol, bids, asks) ==
    LET depth == Min(OBI_DEPTH_LEVELS, Min(Len(bids), Len(asks)))
        total_bid == SumDepth(Quantities(bids), depth)
        total_ask == SumDepth(Quantities(asks), depth)
        call == [symbol |-> symbol, bids |-> Quantities(bids), asks |-> Quantities(asks),
                 best_bid_price |-> IF bids = <<>> THEN 0 ELSE bids[1].price,
                 best_ask_price |-> IF asks = <<>> THEN 0 ELSE asks[1].price,
                 obi |-> Frac(0, 1), signal |-> <<>>]
    IN  IF depth = 0 \/ total_bid + total_ask = 0
        THEN /\ book_call' = call
             /\ UNCHANGED micro
        ELSE LET obi == Obi(total_bid, total_ask)
                 state == ObiAfter(micro[symbol], obi)
             IN  /\ book_call' = [call EXCEPT !.obi = obi]
                 /\ micro' = [micro EXCEPT ![symbol] =
                                  OfiAfter(state, bids[1].price, bids[1].quantity,
                                           asks[1].price, asks[1].quantity)]

RECURSIVE SumSeq(_)
SumSeq(q) == IF q = <<>> THEN 0 ELSE Head(q) + SumSeq(Tail(q))
RECURSIVE MaxSeq(_)
MaxSeq(q) == IF q = <<>> THEN 0 ELSE Max(Head(q), MaxSeq(Tail(q)))
\* the VPIN that is computed from 49 closed buckets on
VpinAfter_FromFortyNine(buckets, current_vpin) ==
    IF Len(buckets) >= VPIN_NUM_BUCKETS - 1
    THEN LET recent == LastN(buckets, VPIN_NUM_BUCKETS)
             max_imbalance == MaxSeq(recent)
         IN  IF max_imbalance > 0
             THEN Frac(SumSeq(recent), Len(recent) * max_imbalance)
             ELSE Frac(0, 1)
    ELSE current_vpin

\* the VPIN after a bucket has closed: mean(recent) / max(recent)
VpinAfter(buckets, current_vpin) ==
    IF Len(buckets) >= VPIN_NUM_BUCKETS
    THEN LET recent == LastN(buckets, VPIN_NUM_BUCKETS)
             max_imbalance == MaxSeq(recent)
         IN  IF max_imbalance > 0
             THEN Frac(SumSeq(recent), Len(recent) * max_imbalance)
             ELSE Frac(0, 1)
    ELSE current_vpin

\* update_trade, the VPIN part
UpdateTrade(symbol, price, quantity, side) ==
    LET state == micro[symbol]
        bucket == [n |-> state.trade_bucket.n + 1,
                   buy_volume |-> state.trade_bucket.buy_volume
                                    + (IF side = "bid" THEN quantity ELSE 0),
                   sell_volume |-> state.trade_bucket.sell_volume
                                    + (IF side = "ask" THEN quantity ELSE 0)]
        buckets == Push(state.vpin_buckets, Abs(bucket.buy_volume - bucket.sell_volume),
                        VPIN_BUCKETS_MAXLEN)
    IN  micro' = [micro EXCEPT ![symbol] =
                    IF bucket.n >= VPIN_BUCKET_SIZE
                    THEN [state EXCEPT !.last_price = price,
                                       !.trade_bucket = NewMicroState.trade_bucket,
                                       !.vpin_buckets = buckets,
                                       !.current_vpin = VpinAfter(buckets, state.current_vpin)]
                    ELSE [state EXCEPT !.last_price = price, !.trade_bucket = bucket]]

(* -------------------------------------------------------- signal ensemble *)
\* the seven signals of a compute_final_score call, in 1/SignalScale
Signals(obi, vpin, momentum, regime, sentiment, funding, volatility) ==
    [obi |-> obi, vpin |-> vpin, momentum |-> momentum, regime |-> regime,
     sentiment |-> sentiment, funding |-> funding, volatility |-> volatility]

\* the weights that are left as they are when an input is absent
EffectiveWeights_NoRescale(x) ==
    [obi |-> ENSEMBLE_WEIGHTS.obi, vpin |-> ENSEMBLE_WEIGHTS.vpin,
     momentum |-> ENSEMBLE_WEIGHTS.momentum, regime |-> ENSEMBLE_WEIGHTS.regime,
     sentiment |-> IF x.sentiment = 0 THEN 0 ELSE ENSEMBLE_WEIGHTS.sentiment,
     funding |-> IF x.funding = 0 THEN 0 ELSE ENSEMBLE_WEIGHTS.funding,
     volatility |-> ENSEMBLE_WEIGHTS.volatility, den |-> 100]

\* The weights compute_final_score applies, as numerators over den: the
\* weight of a sentiment or funding signal that is 0 is taken out, and the
\* five other weights are multiplied by scale = 1 + missing / active.
EffectiveWeights(x) ==
    LET w == ENSEMBLE_WEIGHTS
        w_sent == IF x.sentiment = 0 THEN 0 ELSE w.sentiment
        w_fund == IF x.funding = 0 THEN 0 ELSE w.funding
        missing_weight == (w.sentiment - w_sent) + (w.funding - w_fund)
        active_weight_sum == w.obi + w.vpin + w.momentum + w.regime + w.volatility
    IN  IF missing_weight > 0 /\ active_weight_sum > 0
        THEN LET up == active_weight_sum + missing_weight
             IN  [obi |-> w.obi * up, vpin |-> w.vpin * up, momentum |-> w.momentum * up,
                  regime |-> w.regime * up, sentiment |-> w_sent * active_weight_sum,
                  funding |-> w_fund * active_weight_sum, volatility |-> w.volatility * up,
                  den |-> 100 * active_weight_sum]
        ELSE [obi |-> w.obi, vpin |-> w.vpin, momentum |-> w.momentum, regime |-> w.regime,
              sentiment |-> w_sent, funding |-> w_fund, volatility |-> w.volatility,
              den |-> 100]

\* score, before the clip
WeightedScore(w, x) ==
    Frac(w.obi * x.obi + w.vpin * x.vpin + w.momentum * x.momentum + w.regime * x.regime
            + w.sentiment * x.sentiment + w.funding * x.funding
            + w.volatility * x.volatility,
         w.den * SignalScale)

\* the actions with strong_buy from 0.65
ActionsOf_StrongFromSixtyFive(score) ==
    IF score.num * 100 >= 65 * score.den THEN {"strong_buy"}
    ELSE IF score.num * 2 >= score.den THEN {"buy"}
    ELSE IF score.num * 10 <= (0 - 7) * score.den THEN {"strong_sell"}
    ELSE IF score.num * 10 <= (0 - 3) * score.den THEN {"sell"}
    ELSE {"hold"}

\* The action of a score.  The code compares a sum of binary floating point
\* products with 0.7, 0.5, -0.7 and -0.3: a score that is exactly at one of
\* them may be computed a last place off it, on either side.
ActionsOf(score) ==
    LET at(k) == score.num * 10 = k * score.den
    IN  IF at(7) THEN {"strong_buy", "buy"}
        ELSE IF at(5) THEN {"buy", "hold"}
        ELSE IF at(-7) THEN {"strong_sell", "sell"}
        ELSE IF at(-3) THEN {"sell", "hold"}
        ELSE IF score.num * 10 > 7 * score.den THEN {"strong_buy"}
        ELSE IF score.num * 2 > score.den THEN {"buy"}
        ELSE IF score.num * 10 < (0 - 7) * score.den THEN {"strong_sell"}
        ELSE IF score.num * 10 < (0 - 3) * score.den THEN {"sell"}
        ELSE {"hold"}

\* np.clip(score, -1.0, 1.0)
Clip(score) ==
    IF score.num > score.den THEN Frac(1, 1)
    ELSE IF score.num < 0 - score.den THEN Frac(-1, 1)
    ELSE score

\* confidence, in fifths: the signals of a direction among obi, momentum,
\* regime, sentiment and funding, past a dead band of 0.1
Confidence(x) ==
    LET signals == <<x.obi, x.momentum, x.regime, x.sentiment, x.funding>>
        positive == Cardinality({i \in 1..5 : signals[i] * 10 > SignalScale})
        negative == Cardinality({i \in 1..5 : signals[i] * 10 < 0 - SignalScale})
    IN  IF positive + negative > 0 THEN Max(positive, negative) ELSE 0

\* what compute_final_score returns on the signals x, with the weights it
\* applied
FinalScore(x, action) ==
    [components |-> x, weights |-> EffectiveWeights(x),
     score |-> Clip(WeightedScore(EffectiveWeights(x), x)), action |-> action,
     confidence |-> Confidence(x), vpin_warning |-> x.vpin * 2 < 0 - SignalScale]

\* no compute_final_score call yet
NoScore ==
    [components |-> Signals(0, 0, 0, 0, 0, 0, 0),
     weights |-> [ENSEMBLE_WEIGHTS @@ [den |-> 100] EXCEPT !.den = 100],
     score |-> Frac(0, 1), action |-> "-", confidence |-> 0, vpin_warning |-> FALSE]

\* VPIN_DANGER_THRESHOLD, in hundredths
VPIN_DANGER_THRESHOLD == 80

\* get_vpin_signal with the danger threshold ten points higher
GetVpinSignal_DangerAtNinety(current_vpin) ==
    IF current_vpin >= VPIN_DANGER_THRESHOLD + 10
    THEN 0 - ((current_vpin * SignalScale) \div 100)
    ELSE 0

\* the "signal" of get_vpin_signal, in 1/SignalScale, on a current_vpin given in
\* hundredths: minus the VPIN at or over the danger threshold, else 0
GetVpinSignal(current_vpin) ==
    IF current_vpin >= VPIN_DANGER_THRESHOLD
    THEN 0 - ((current_vpin * SignalScale) \div 100)
    ELSE 0

\* the two early returns of _check_entry on the ensemble's answer: the VPIN
\* warning first, then an action that is not a buy
EntryRejected(result) ==
    result.vpin_warning \/ result.action \notin {"buy", "strong_buy"}

\* no _check_entry call yet
NoEntryCall ==
    [symbol |-> "-", current_vpin |-> 0, held |-> FALSE, result |-> NoScore,
     approved |-> FALSE, bid |-> FALSE]

(* ------------------------------------------------ volatility and regime *)
\* GARCH_RETRAIN_INTERVAL and HMM_RETRAIN_INTERVAL, in seconds
GARCH_RETRAIN_INTERVAL == 1800
HMM_RETRAIN_INTERVAL == 3600
\* the returns a GARCH refit needs, the prices an HMM refit needs, and the
\* returns the realized volatility needs
GARCH_MIN_RETURNS == 100
HMM_MIN_PRICES == 120
RV_MIN_RETURNS == 10
\* the volatilities of a new VolatilityModel and the floor of the realized and
\* of the forecast volatility, in thousandths
INITIAL_VOLATILITY == 10
VOLATILITY_MINIMUM == 1

\* A VolatilityModel: its three volatilities in thousandths, the time since
\* _last_train_time as its last update_price read it (it stops counting at the
\* retrain interval; a new model has never trained), and of its last
\* update_price call whether it refitted and where the refit raised
NewVolatilityModel ==
    [current_rv |-> INITIAL_VOLATILITY, current_garch_vol |-> INITIAL_VOLATILITY,
     forecast_vol |-> INITIAL_VOLATILITY, since_train |-> GARCH_RETRAIN_INTERVAL,
     refit |-> FALSE, raised_at |-> "-"]

\* A RegimeDetector: the stored model (0: None; a refit stores a model that
\* is not the one before), the regime, and the same record of time and of the
\* last update_price call
NewRegimeDetector ==
    [model |-> 0, current_regime |-> 1, since_train |-> HMM_RETRAIN_INTERVAL,
     refit |-> FALSE, raised_at |-> "-"]

\* no get_signal call yet
NoSignalCall == [current_rv |-> 0, signal |-> 0, called |-> FALSE]

\* the two estimators as _on_transaction feeds them, the volatility model
\* first: the prices fed (counted up to HMM_MIN_PRICES) and the seconds
\* between the tick being fed and the one before
NewEstimators ==
    [pc |-> "volatility", prices |-> 0, elapsed |-> 0,
     volatility |-> NewVolatilityModel, regime |-> NewRegimeDetector,
     signal_call |-> NoSignalCall]

\* the steps of _train_garch that can raise, in their order (the fit with the
\* model's construction, the read of the last conditional volatility, the
\* forecast with the read of its variance), and "-": none does
GarchSteps == <<"fit", "conditional_volatility", "forecast">>
\* the steps of the try block of _train that can raise
HmmSteps == <<"fit", "predict">>

\* where step stands in steps; past the end for "-"
StepIndex(steps, step) ==
    IF \E i \in 1..Len(steps) : steps[i] = step
    THEN CHOOSE i \in 1..Len(steps) : steps[i] = step
    ELSE Len(steps) + 1

\* _train_garch: the conditional volatility is assigned once the fit has
\* returned and its last value has been read, the forecast volatility once
\* the forecast and its variance have; a raise is caught and logged
TrainGarch(model, raised_at, conditional_volatility, variance) ==
    LET at == StepIndex(GarchSteps, raised_at)
        fitted == IF at > StepIndex(GarchSteps, "conditional_volatility")
                  THEN [model EXCEPT !.current_garch_vol = conditional_volatility]
                  ELSE model
        forecast == IF at > StepIndex(GarchSteps, "forecast")
                    THEN [fitted EXCEPT !.forecast_vol = Max(variance, VOLATILITY_MINIMUM)]
                    ELSE fitted
    IN  [forecast EXCEPT !.raised_at = raised_at]

\* _train, with the HMM_MIN_PRICES prices or more that update_price calls it
\* with: the regime and the model are assigned after the last step that can
\* raise; a raise is caught and logged
Train(detector, raised_at, regime) ==
    IF raised_at = "-"
    THEN [detector EXCEPT !.current_regime = regime,
                          !.model = IF detector.model = 1 THEN 2 ELSE 1,
                          !.raised_at = raised_at]
    ELSE [detector EXCEPT !.raised_at = raised_at]

\* VolatilityModel.update_price on the prices-th price (counted from the one
\* that is appended), elapsed seconds after the call before: rv is the
\* realized volatility of the window when it is computed
VolatilityUpdatePrice(model, prices, elapsed, rv, raised_at, cond_vol, variance) ==
    LET since == Min(model.since_train + elapsed, GARCH_RETRAIN_INTERVAL)
        measured == [model EXCEPT !.current_rv = IF prices - 1 >= RV_MIN_RETURNS
                                                 THEN Max(rv, VOLATILITY_MINIMUM)
                                                 ELSE @]
    IN  IF since >= GARCH_RETRAIN_INTERVAL /\ prices - 1 >= GARCH_MIN_RETURNS
        THEN [TrainGarch(measured, raised_at, cond_vol, variance)
                 EXCEPT !.since_train = 0, !.refit = TRUE]
        ELSE [measured EXCEPT !.since_train = since, !.refit = FALSE, !.raised_at = "-"]

\* RegimeDetector.update_price on the prices-th price
RegimeUpdatePrice(detector, prices, elapsed, raised_at, regime) ==
    LET since == Min(detector.since_train + elapsed, HMM_RETRAIN_INTERVAL)
        fed == detector
    IN  IF since >= HMM_RETRAIN_INTERVAL /\ prices >= HMM_MIN_PRICES
        THEN [Train(fed, raised_at, regime) EXCEPT !.since_train = 0, !.refit = TRUE]
        ELSE [fed EXCEPT !.since_train = since, !.refit = FALSE, !.raised_at = "-"]

\* VolatilityModel.get_signal, in 1/SignalScale, on a _current_rv in thousandths
VolatilitySignal(current_rv) ==
    IF current_rv > 50 THEN 0 - SignalScale
    ELSE IF current_rv > 30 THEN 0 - (SignalScale \div 2)
    ELSE IF current_rv > 10 THEN 0
    ELSE SignalScale \div 2

(* ------------------------------------------------------- private REST calls *)
\* no private call yet
NoPrivateCall == [endpoint |-> "-", requested |-> FALSE, status |-> "-"]
\* The four public endpoints with the value each getter returns when the
\* response has no data field: a dict for the first two, a list for the others.
PublicDefaults ==
    [ticker |-> "{}", orderbook |-> "{}", transaction_history |-> "[]", candlestick |-> "[]"]
PublicEndpoints == DOMAIN PublicDefaults

\* What the exchange does with a public GET: the connection fails, the body is
\* not JSON, or a JSON envelope arrives with a status and, or not, a data field
\* ("{}" and "[]" are empty, "1" and "2" stand for data of one and two items).
PublicOutcomes ==
    {[kind |-> "transport_error", status |-> "-", data |-> "-"],
     [kind |-> "not_json", status |-> "-", data |-> "-"]}
    \cup [kind : {"envelope"}, status : {"0000", "5500"}, data : {"-", "{}", "[]", "1", "2"}]

\* get_ticker, get_orderbook, get_transaction_history and get_candlestick: what
\* the call gives its caller. session.get and resp.json are not inside any try,
\* so their exceptions leave the getter; an envelope gives its data field, or the
\* default when it has none, whatever its status.
PublicGet(endpoint, outcome) ==
    IF outcome.kind \in {"transport_error", "not_json"}
    THEN [raised |-> TRUE, value |-> "-"]
    ELSE [raised |-> FALSE,
          value |-> IF outcome.data = "-" THEN PublicDefaults[endpoint] ELSE outcome.data]

NoPublicCall == [endpoint |-> "-", outcome |-> [kind |-> "-", status |-> "-", data |-> "-"],
                 result |-> [raised |-> FALSE, value |-> "-"]]

\* TARGET_SYMBOLS in the order of the list
TargetSymbolList == <<"BTC", "ETH", "XRP", "SOL", "DOGE">>
\* _load_initial_data before it is run
NoInitialData == [pc |-> "load", at |-> 1, loaded |-> {}]

\* _on_transaction before any message: list holds, for each tick of the
\* message, whether its price and quantity are positive
NoAbsorbed == [update_trade |-> 0, volatility |-> 0, regime |-> 0]
NoTickRun == [pc |-> "idle", symbol |-> "-", list |-> <<>>, at |-> 0,
              absorbed |-> NoAbsorbed, log |-> <<>>]

(* ------------------------------------------ the estimators' price windows *)
\* deque(maxlen=GARCH_LOOKBACK + 100), deque(maxlen=60) and
\* deque(maxlen=HMM_LOOKBACK_HOURS * 60)
VOLATILITY_PRICES_MAXLEN == 600
RV_WINDOW_MAXLEN == 60
REGIME_PRICES_MAXLEN == 10080

\* np.log(price) in thousandths, of the prices the runs are fed: 11.512925,
\* 11.491702 and 8.517193
LnThousandths(price) ==
    CASE price = 100000 -> 11513
      [] price = 97900 -> 11492
      [] price = 5000 -> 8517

\* the largest r in lo..hi-1 with r * r <= n
RECURSIVE IsqrtIn(_, _, _)
IsqrtIn(n, lo, hi) ==
    IF hi - lo <= 1 THEN lo
    ELSE LET mid == (lo + hi) \div 2
         IN  IF mid * mid <= n THEN IsqrtIn(n, mid, hi) ELSE IsqrtIn(n, lo, mid)
\* np.sqrt, rounded down
Isqrt(n) == IsqrtIn(n, 0, 16384)

\* np.sum(rv_arr ** 2), value by value
RECURSIVE SumSquares(_, _)
SumSquares(S, q) ==
    IF S = {} THEN 0
    ELSE LET v == CHOOSE x \in S : TRUE
         IN  Cardinality({i \in DOMAIN q : q[i] = v}) * v * v + SumSquares(S \ {v}, q)

\* The window of the VolatilityModel: the prices, the returns the realized
\* volatility is taken from and the realized volatility, returns and
\* volatility in thousandths.
NewWindow == [prices |-> <<>>, rv_window |-> <<>>, current_rv |-> INITIAL_VOLATILITY]

\* VolatilityModel.update_price up to the GARCH refit, which fewer than
\* GARCH_MIN_RETURNS returns leave out
WindowUpdatePrice(model, price) ==
    LET prices == Push(model.prices, price, VOLATILITY_PRICES_MAXLEN)
        n == Len(prices)
    IN  IF n < 2 THEN [model EXCEPT !.prices = prices]
        ELSE LET ret == LnThousandths(prices[n]) - LnThousandths(prices[n - 1])
                 rv_window == Push(model.rv_window, ret, RV_WINDOW_MAXLEN)
                 squares == SumSquares({rv_window[i] : i \in DOMAIN rv_window}, rv_window)
             IN  [prices |-> prices, rv_window |-> rv_window,
                  current_rv |-> IF Len(rv_window) >= RV_MIN_RETURNS
                                 THEN Max(Isqrt(squares), VOLATILITY_MINIMUM)
                                 ELSE model.current_rv]

\* The prices of the RegimeDetector and its regime, which fewer than
\* HMM_MIN_PRICES prices leave at the initial one.
NewRegimeWindow == [prices |-> <<>>, current_regime |-> 1]
RegimeWindowUpdatePrice(detector, price) ==
    [detector EXCEPT !.prices = Push(@, price, REGIME_PRICES_MAXLEN)]

\* A run of the engine: its two estimators, its BTC position if it holds
\* one, the last tick it took, the BTC ticks it has taken, how many ETH
\* ticks, and the exit action of each BTC tick ("-": not evaluated).
NewRun ==
    [volatility |-> NewWindow, regime |-> NewRegimeWindow, position |-> <<>>,
     last_tick |-> [symbol |-> "-", price |-> 0], a_ticks |-> <<>>, b_ticks |-> 0,
     decisions |-> <<>>]

\* the tick whose estimators take in the ticks of BTC only
RunTick_OwnWindow(run, symbol, price) ==
    LET volatility == IF symbol = "BTC" THEN WindowUpdatePrice(run.volatility, price)
                      ELSE run.volatility
        regime == IF symbol = "BTC" THEN RegimeWindowUpdatePrice(run.regime, price)
                  ELSE run.regime
        fed == [run EXCEPT !.volatility = volatility, !.regime = regime,
                           !.last_tick = [symbol |-> symbol, price |-> price]]
    IN  IF symbol # "BTC" THEN [fed EXCEPT !.b_ticks = @ + 1]
        ELSE IF run.position = <<>>
        THEN [fed EXCEPT !.a_ticks = Append(@, price), !.decisions = Append(@, "-")]
        ELSE LET upd == UpdatePrice(run.position[1], price, volatility.current_rv,
                                    REGIME_PARAMS[regime.current_regime].trailing_mult)
             IN  [fed EXCEPT !.a_ticks = Append(@, price),
                             !.decisions = Append(@, upd.action),
                             !.position = IF upd.action = "none" THEN <<upd.pos>> ELSE <<>>]

\* One tick of _on_transaction in a run: the price goes to the volatility
\* model and to the regime detector whatever the symbol, then _check_exit
\* reads the realized volatility and the regime's parameters.  The exchange
\* acknowledges the ask of an exit, and the ensemble answers hold, so
\* _check_entry places nothing; update_trade feeds the VPIN of the tick's
\* symbol alone and is left aside.
RunTick(run, symbol, price) ==
    LET volatility == WindowUpdatePrice(run.volatility, price)
        regime == RegimeWindowUpdatePrice(run.regime, price)
        fed == [run EXCEPT !.volatility = volatility, !.regime = regime,
                           !.last_tick = [symbol |-> symbol, price |-> price]]
    IN  IF symbol # "BTC" THEN [fed EXCEPT !.b_ticks = @ + 1]
        ELSE IF run.position = <<>>
        THEN [fed EXCEPT !.a_ticks = Append(@, price), !.decisions = Append(@, "-")]
        ELSE LET upd == UpdatePrice(run.position[1], price, volatility.current_rv,
                                    REGIME_PARAMS[regime.current_regime].trailing_mult)
             IN  [fed EXCEPT !.a_ticks = Append(@, price),
                             !.decisions = Append(@, upd.action),
                             !.position = IF upd.action = "none" THEN <<upd.pos>> ELSE <<>>]

\* a run that has taken its first tick, of BTC at 100000, and entered on it
EnteredRun ==
    LET first == RunTick(NewRun, "BTC", 100000)
    IN  [first EXCEPT !.position = <<Position("BTC", 100000, QtyScale)>>]

InitHost ==
    /\ runs = [r \in 1..2 |-> EnteredRun]
    /\ private_call = NoPrivateCall
    /\ public_call = NoPublicCall
    /\ initial_data = NoInitialData
    /\ running = TRUE
    /\ funding_loop = "check"
    /\ tick_run = NoTickRun
    /\ entry_call = NoEntryCall
    /\ estimators = NewEstimators
    /\ risk_call = NoRiskCall

\* _private_post that signs and posts whether or not the keys are set
PrivatePost_AlwaysPosts(endpoint, answer) ==
    [endpoint |-> endpoint, requested |-> TRUE, status |-> answer]

\* _private_post: without the key or the secret it returns status 9999 before
\* anything is signed or posted; with both, the request is posted and the
\* exchange's answer returned
PrivatePost(endpoint, answer) ==
    IF ~keys_configured
    THEN [endpoint |-> endpoint, requested |-> FALSE, status |-> "9999"]
    ELSE [endpoint |-> endpoint, requested |-> TRUE, status |-> answer]

(* ------------------------------------------------------------ the gateway *)
\* BithumbGateway._reconnect_delay after construction, and the cap of the backoff
ReconnectDelayStart == 1
ReconnectDelayCap == 30

\* The streaming loop after construction: about to connect, not connected, the
\* delay at its start; waits are the delays start_websocket has slept, in order,
\* subscribed tells that this pass of the loop has sent both subscriptions,
\* dispatched counts the text messages of this connection, callbacks holds the
\* handlers of each event in the order on() appended them, and last is the last
\* text message: its type, the handlers _dispatch invoked for it, in order, and
\* the places in callbacks[event] of those that raised.
NoMessage == [event |-> "-", invoked |-> <<>>, raised |-> {}]
NewGateway ==
    [pc |-> "connect", connected |-> FALSE, reconnect_delay |-> ReconnectDelayStart,
     waits |-> <<>>, subscribed |-> FALSE, dispatched |-> 0,
     callbacks |-> [orderbookdepth |-> <<>>, transaction |-> <<>>],
     last |-> NoMessage]

\* on(event, callback): the handler is appended to the event's list
On(gw, event, callback) ==
    [gw EXCEPT !.callbacks[event] = Append(gw.callbacks[event], callback)]

\* the gateway of a constructed engine, which registers its two handlers
EngineGateway ==
    On(On(NewGateway, "orderbookdepth", "_on_orderbook"), "transaction", "_on_transaction")

\* _dispatch when a raising handler ends the loop over the handlers
Dispatch_StopsAtRaise(cbs, raised) ==
    IF raised = {} THEN cbs
    ELSE SubSeq(cbs, 1, CHOOSE i \in raised : \A j \in raised : i <= j)

\* _dispatch: the handlers it awaits, in order; the handlers at the places in
\* raised raise an Exception, which is logged inside the loop over the handlers
Dispatch(cbs, raised) == [i \in 1..Len(cbs) |-> cbs[i]]

\* the engine and risk manager are not touched by the streaming loop itself
GatewayFrame ==
    UNCHANGED <<riskVars, now, keys_configured, taskVars, update_call, stats, micro,
                book_call, tape, score_call, hostVars>>

\* an exception anywhere in the try block, or the end of the message loop, leads
\* to the wait at the bottom of the while loop
WsToWait == ws' = [ws EXCEPT !.pc = "wait"]

\* _get_session and ws_connect: on success _ws_connected is set and the delay
\* goes back to its start, before anything is subscribed; on an exception neither
WsConnect ==
    /\ ws.pc = "connect"
    /\ \/ ws' = [ws EXCEPT !.pc = "subscribe_orderbook", !.connected = TRUE,
                            !.reconnect_delay = ReconnectDelayStart,
                            !.dispatched = 0]
       \/ WsToWait
    /\ GatewayFrame

\* send_json of the order-book subscription, which may raise
WsSubscribeOrderbook ==
    /\ ws.pc = "subscribe_orderbook"
    /\ \/ ws' = [ws EXCEPT !.pc = "subscribe_transaction"]
       \/ WsToWait
    /\ GatewayFrame

\* send_json of the transaction subscription, which may raise
WsSubscribeTransaction ==
    /\ ws.pc = "subscribe_transaction"
    /\ \/ ws' = [ws EXCEPT !.pc = "stream", !.subscribed = TRUE]
       \/ WsToWait
    /\ GatewayFrame

\* one message of the stream: a text message of one of the two event types is
\* dispatched to the handlers of its type, whichever of them raise, and the loop
\* goes on; a text message of another type or one that is not JSON is passed
\* over; a CLOSED or ERROR message, the end of the stream or an exception of the
\* socket leaves the loop
WsMessage ==
    /\ ws.pc = "stream"
    /\ \/ /\ ws.dispatched < MaxMessages
          /\ \E event \in {"orderbookdepth", "transaction"} :
               \E raised \in SUBSET (1..Len(ws.callbacks[event])) :
                 ws' = [ws EXCEPT !.dispatched = ws.dispatched + 1,
                                  !.last = [event |-> event,
                                            invoked |-> Dispatch(ws.callbacks[event], raised),
                                            raised |-> raised]]
       \/ /\ ws.dispatched < MaxMessages
          /\ ws' = [ws EXCEPT !.dispatched = ws.dispatched + 1,
                              !.last = [NoMessage EXCEPT !.event = "other"]]
       \/ WsToWait
    /\ GatewayFrame

\* the bottom of the while loop: _ws_connected is cleared, the loop sleeps the
\* current delay and then doubles it up to the cap, and goes round again: the
\* loop is `while True` and reads no flag. Of the delays slept the first
\* MaxWaits are kept.
WsWait ==
    /\ ws.pc = "wait"
    /\ ws' = [ws EXCEPT !.pc = "connect", !.connected = FALSE, !.subscribed = FALSE,
                        !.waits = IF Len(ws.waits) < MaxWaits
                                  THEN Append(ws.waits, ws.reconnect_delay)
                                  ELSE ws.waits,
                        !.reconnect_delay = Min(ws.reconnect_delay * 2, ReconnectDelayCap)]
    /\ GatewayFrame

(* ------------------------------------------------------------ the engine *)
\* What the environment feeds a behaviour: the symbols the stream carries,
\* the ticks (contPrice, contQty) of its transaction messages and how many a
\* message holds, the realized volatility (thousandths) and the regime the two
\* estimators hold after a tick's update, the actions the ensemble returns and
\* how many of them are buy signals, and the available_krw the balance call
\* answers (0 is also the answer on any failure of that call).
Feed(symbols, ticks, maxlen, rvs, regimes, actions, entries, cash) ==
    [symbols |-> symbols, ticks |-> ticks, maxlen |-> maxlen, rvs |-> rvs,
     regimes |-> regimes, actions |-> actions, entries |-> entries, cash |-> cash]

Tx(price, qty) == [price |-> price, qty |-> qty]
TxLists(F) == UNION {[1..n -> F.ticks] : n \in 1..F.maxlen}
\* statuses the exchange answers a private call with; "EXC" is the HTTP
\* call raising (transport or parse failure)
ExchangeStatuses == {"0000", "5600", "9999"}
Outcomes == ExchangeStatuses \cup {"EXC"}
\* what compute_final_score returns to the entry decision
EnsembleResults(F) == [action : F.actions, vpin_warning : BOOLEAN]

IdleFrame == [symbol |-> "-", price |-> 0, rest |-> <<>>, regime |-> 1, action |-> "-",
              quantity |-> 0]
NoReq == [kind |-> "-", symbol |-> "-", side |-> "-", quantity |-> 0]
\* a can_enter call with what it returned, and no call yet
CanEnterCall(symbol, available_cash, regime_cash_ratio) ==
    [symbol |-> symbol, available_cash |-> available_cash,
     regime_cash_ratio |-> regime_cash_ratio,
     result |-> CanEnter(symbol, available_cash, regime_cash_ratio)]
NoResult == [symbol |-> "-", available_cash |-> 0, regime_cash_ratio |-> 0,
             result |-> Refusal("-")]
NoSignal == [action |-> "-", pnl_pct |-> 0]
Order(symbol, side, quantity) ==
    [kind |-> "order", symbol |-> symbol, side |-> side, quantity |-> quantity]
BalanceReq == [kind |-> "balance", symbol |-> "BTC", side |-> "-", quantity |-> 0]
\* no get_stats call yet
NoStats == [total_trades |-> -1, kelly_fraction |-> -1]
\* an update_price call with what it returned, and no call yet
NoUpdate == [symbol |-> "-", current_price |-> 0, realized_volatility |-> 0,
             trailing_mult |-> 0, held |-> FALSE, action |-> "-"]

Init ==
    /\ positions = <<>>
    /\ trade_history = <<>>
    /\ daily_trades = <<>>
    /\ daily_pnl = 0
    /\ daily_pnl_history = <<>>
    /\ consecutive_losses = 0
    /\ cooldown_until = 0
    /\ notifications = 0
    /\ now = 0
    /\ keys_configured \in BOOLEAN
    /\ entry_locks = [s \in TARGET_SYMBOLS |-> 0]
    /\ pc = [t \in Tasks |-> "idle"]
    /\ frame = [t \in Tasks |-> IdleFrame]
    /\ inflight = [t \in Tasks |-> NoReq]
    /\ can_result = [t \in Tasks |-> NoResult]
    /\ exit_signal = [t \in Tasks |-> NoSignal]
    /\ order_result = [t \in Tasks |-> "-"]
    /\ update_call = NoUpdate
    /\ stats = NoStats
    /\ InitMicro
    /\ score_call = NoScore
    /\ ws = EngineGateway
    /\ InitHost

\* the handler t moves on: its position, its locals, its pending request and
\* the values its last calls returned
SetTask(t, p, f, req, cr, es, st) ==
    /\ pc' = [pc EXCEPT ![t] = p]
    /\ frame' = [frame EXCEPT ![t] = f]
    /\ inflight' = [inflight EXCEPT ![t] = req]
    /\ can_result' = [can_result EXCEPT ![t] = cr]
    /\ exit_signal' = [exit_signal EXCEPT ![t] = es]
    /\ order_result' = [order_result EXCEPT ![t] = st]
    /\ UNCHANGED callVars

\* the tick is done: back to the head of the loop of _on_transaction, where
\* of the handler's locals the symbol and the ticks left are live
Finish(t, f, cr, es, st) ==
    SetTask(t, "tick", [IdleFrame EXCEPT !.symbol = f.symbol, !.rest = f.rest],
            NoReq, cr, es, st)

\* the handler's exception reaches _dispatch, which logs it: the rest of the
\* message is dropped
Abort(t) == Finish(t, [frame[t] EXCEPT !.rest = <<>>], can_result[t], exit_signal[t], "EXC")

\* entries made or under way
EntriesSoFar ==
    Len(trade_history) + Cardinality(Held)
        + Cardinality({t \in Tasks : pc[t] \in {"entry_cash", "entry_order"}})

\* the sizing that doubles what the regime allows
KellyAdjusted_Doubled(max_amount, kelly_mult, action) ==
    LET by_regime == (max_amount * kelly_mult) \div 2
    IN  IF action = "strong_buy" THEN by_regime ELSE by_regime \div 2

\* kelly_adjusted of _check_entry: kelly_mult in quarters
KellyAdjusted(max_amount, kelly_mult, action) ==
    LET by_regime == (max_amount * kelly_mult) \div 4
    IN  IF action = "strong_buy" THEN by_regime ELSE by_regime \div 2

\* the entry that lets go of the entry lock as it places its bid
AfterCash_ReleasesLock(t, f, cash, es, st) ==
    LET params == REGIME_PARAMS[f.regime]
        res == CanEnterCall(f.symbol, cash, params.cash_ratio)
        quantity == (KellyAdjusted(res.result.max_amount, params.kelly_mult, f.action)
                        * QtyScale) \div f.price
    IN  /\ entry_locks' = [entry_locks EXCEPT ![f.symbol] = 0]
        /\ IF ~res.result.can \/ quantity <= 0 THEN Finish(t, f, res, es, st)
           ELSE IF ~keys_configured THEN Finish(t, f, res, es, "9999")
           ELSE SetTask(t, "entry_order", [f EXCEPT !.quantity = quantity],
                        Order(f.symbol, "bid", quantity), res, es, st)

\* the entry that places its bid whatever the quantity
AfterCash_AnyQuantity(t, f, cash, es, st) ==
    LET params == REGIME_PARAMS[f.regime]
        res == CanEnterCall(f.symbol, cash, params.cash_ratio)
        quantity == (KellyAdjusted(res.result.max_amount, params.kelly_mult, f.action)
                        * QtyScale) \div f.price
    IN  IF ~res.result.can
        THEN /\ Finish(t, f, res, es, st)
             /\ entry_locks' = [entry_locks EXCEPT ![f.symbol] = 0]
        ELSE /\ SetTask(t, "entry_order", [f EXCEPT !.quantity = quantity],
                        Order(f.symbol, "bid", quantity), res, es, st)
             /\ entry_locks' = [entry_locks EXCEPT ![f.symbol] = t]

\* _check_entry from can_enter on, with the cash the balance call gave
AfterCash(t, f, cash, es, st) ==
    LET params == REGIME_PARAMS[f.regime]
        res == CanEnterCall(f.symbol, cash, params.cash_ratio)
        quantity == (KellyAdjusted(res.result.max_amount, params.kelly_mult, f.action)
                        * QtyScale) \div f.price
    IN  IF ~res.result.can \/ quantity <= 0
        THEN /\ Finish(t, f, res, es, st)
             /\ entry_locks' = [entry_locks EXCEPT ![f.symbol] = 0]
        ELSE IF ~keys_configured
        THEN /\ Finish(t, f, res, es, "9999")
             /\ entry_locks' = [entry_locks EXCEPT ![f.symbol] = 0]
        ELSE /\ SetTask(t, "entry_order", [f EXCEPT !.quantity = quantity],
                        Order(f.symbol, "bid", quantity), res, es, st)
             /\ entry_locks' = [entry_locks EXCEPT ![f.symbol] = t]

\* _check_entry inside the entry lock, up to the balance call; held: the
\* symbol has a registered position
EntryBody(t, f, held, es, st, F) ==
    IF held
    THEN Finish(t, f, NoResult, es, st) /\ UNCHANGED entry_locks
    ELSE \E result \in EnsembleResults(F) :
            /\ result.action \in {"buy", "strong_buy"} => EntriesSoFar < F.entries
            /\ LET g == [f EXCEPT !.action = result.action]
               IN  IF EntryRejected(result)
                   THEN Finish(t, g, NoResult, es, st) /\ UNCHANGED entry_locks
                   ELSE IF ~keys_configured
                   THEN AfterCash(t, g, 0, es, st)
                   ELSE /\ SetTask(t, "entry_cash", g, BalanceReq, NoResult, es, st)
                        /\ entry_locks' = [entry_locks EXCEPT ![g.symbol] = t]

\* _check_entry without its entry lock
CheckEntry_NoLock(t, f, held, es, st, F) == EntryBody(t, f, held, es, st, F)

\* _check_entry: the handler waits while another one holds the symbol's lock
CheckEntry(t, f, held, es, st, F) ==
    IF entry_locks[f.symbol] # 0
    THEN SetTask(t, "entry_wait", f, NoReq, NoResult, es, st) /\ UNCHANGED entry_locks
    ELSE EntryBody(t, f, held, es, st, F)

\* _check_exit that places no second ask once one has failed
CheckExit_OneAttempt(t, f, rv, F) ==
    IF f.symbol \notin Held
    THEN /\ UNCHANGED positions
         /\ CheckEntry(t, f, FALSE, NoSignal, "-", F)
    ELSE LET upd == UpdatePrice(positions[f.symbol], f.price, rv,
                                REGIME_PARAMS[f.regime].trailing_mult)
             sig == [action |-> upd.action, pnl_pct |-> upd.pnl_pct]
         IN  /\ positions' = [positions EXCEPT ![f.symbol] = upd.pos]
             /\ IF upd.action = "none" \/ order_result[t] \in {"5600", "9999", "EXC"}
                THEN CheckEntry(t, f, TRUE, sig, "-", F)
                ELSE IF ~keys_configured
                THEN CheckEntry(t, f, TRUE, sig, "9999", F)
                ELSE /\ SetTask(t, "exit_order", f, Order(f.symbol, "ask", upd.pos.quantity),
                                NoResult, sig, "-")
                     /\ UNCHANGED entry_locks

\* _check_exit up to the market ask, going on to _check_entry when no ask is
\* awaited; the tick's price and regime are in f
CheckExit(t, f, rv, F) ==
    IF f.symbol \notin Held
    THEN /\ UNCHANGED positions
         /\ CheckEntry(t, f, FALSE, NoSignal, "-", F)
    ELSE LET upd == UpdatePrice(positions[f.symbol], f.price, rv,
                                REGIME_PARAMS[f.regime].trailing_mult)
             sig == [action |-> upd.action, pnl_pct |-> upd.pnl_pct]
         IN  /\ positions' = [positions EXCEPT ![f.symbol] = upd.pos]
             /\ IF upd.action = "none"
                THEN CheckEntry(t, f, TRUE, sig, "-", F)
                ELSE IF ~keys_configured
                THEN CheckEntry(t, f, TRUE, sig, "9999", F)
                ELSE /\ SetTask(t, "exit_order", f, Order(f.symbol, "ask", upd.pos.quantity),
                                NoResult, sig, "-")
                     /\ UNCHANGED entry_locks

\* one tick of _on_transaction: dropped when out of range, else the
\* estimators' updates, _check_exit and _check_entry
TickBody(t, symbol, txs, F) ==
    LET tx == Head(txs)
        f == [IdleFrame EXCEPT !.symbol = symbol, !.rest = Tail(txs)]
    IN  /\ UNCHANGED <<trade_history, daily_trades, daily_pnl, daily_pnl_history,
                       consecutive_losses, cooldown_until, notifications>>
        /\ IF tx.price <= 0 \/ tx.qty <= 0
           THEN /\ Finish(t, f, NoResult, NoSignal, "-")
                /\ UNCHANGED <<positions, entry_locks>>
           ELSE \E rv \in F.rvs, reg \in F.regimes :
                   CheckExit(t, [f EXCEPT !.price = tx.price, !.regime = reg], rv, F)

\* the gateway hands a transaction message to _on_transaction
OnTransaction(t, F) ==
    /\ pc[t] = "idle"
    /\ UNCHANGED <<now, keys_configured>>
    /\ \E sym \in F.symbols, txs \in TxLists(F) :
          IF sym \notin TARGET_SYMBOLS
          THEN UNCHANGED <<riskVars, taskVars, callVars>>
          ELSE TickBody(t, sym, txs, F)

\* the loop of _on_transaction after a tick: the next tick, or the return
NextTick(t, F) ==
    /\ pc[t] = "tick"
    /\ UNCHANGED <<now, keys_configured>>
    /\ IF frame[t].rest = <<>>
       THEN /\ SetTask(t, "idle", IdleFrame, NoReq, NoResult, NoSignal, "-")
            /\ UNCHANGED <<riskVars, entry_locks>>
       ELSE TickBody(t, frame[t].symbol, frame[t].rest, F)

\* the exit that closes the position whatever the ask's status
AskReturn_AnyStatus(t, F) ==
    /\ pc[t] = "exit_order"
    /\ UNCHANGED <<now, keys_configured>>
    /\ \E status \in ExchangeStatuses :
          /\ ClosePosition(frame[t].symbol, frame[t].price)
          /\ CheckEntry(t, frame[t], FALSE, exit_signal[t], status, F)

\* the exit that hands the entry evaluation the price the position was
\* entered at
AskReturn_AtEntryPrice(t, F) ==
    /\ pc[t] = "exit_order"
    /\ UNCHANGED <<now, keys_configured>>
    /\ \E status \in Outcomes :
          IF status = "EXC"
          THEN Abort(t) /\ UNCHANGED <<riskVars, entry_locks>>
          ELSE IF status = "0000"
          THEN /\ ClosePosition(frame[t].symbol, frame[t].price)
               /\ CheckEntry(t, [frame[t] EXCEPT
                                    !.price = IF frame[t].symbol \in Held
                                              THEN positions[frame[t].symbol].entry_price
                                              ELSE @],
                             FALSE, exit_signal[t], status, F)
          ELSE /\ UNCHANGED riskVars
               /\ CheckEntry(t, frame[t], frame[t].symbol \in Held, exit_signal[t], status, F)

\* the market ask of _check_exit returns
AskReturn(t, F) ==
    /\ pc[t] = "exit_order"
    /\ UNCHANGED <<now, keys_configured>>
    /\ \E status \in Outcomes :
          IF status = "EXC"
          THEN Abort(t) /\ UNCHANGED <<riskVars, entry_locks>>
          ELSE IF status = "0000"
          THEN /\ ClosePosition(frame[t].symbol, frame[t].price)
               /\ CheckEntry(t, frame[t], FALSE, exit_signal[t], status, F)
          ELSE /\ UNCHANGED riskVars
               /\ CheckEntry(t, frame[t], frame[t].symbol \in Held, exit_signal[t], status, F)

\* the entry lock is free again: the waiting handler takes it
EntryWake(t, F) ==
    /\ pc[t] = "entry_wait"
    /\ entry_locks[frame[t].symbol] = 0
    /\ UNCHANGED <<riskVars, now, keys_configured>>
    /\ EntryBody(t, frame[t], frame[t].symbol \in Held, exit_signal[t], order_result[t], F)

\* the balance call of _get_available_cash returns
CashReturn(t, F) ==
    /\ pc[t] = "entry_cash"
    /\ UNCHANGED <<riskVars, now, keys_configured>>
    /\ \E cash \in F.cash : AfterCash(t, frame[t], cash, exit_signal[t], "-")

\* the entry that registers the position whatever the bid's status
BidReturn_AnyStatus(t) ==
    /\ pc[t] = "entry_order"
    /\ UNCHANGED <<now, keys_configured>>
    /\ entry_locks' = [entry_locks EXCEPT ![frame[t].symbol] = 0]
    /\ \E status \in ExchangeStatuses :
          /\ Finish(t, frame[t], can_result[t], exit_signal[t], status)
          /\ RegisterPosition(frame[t].symbol, frame[t].price, frame[t].quantity)
          /\ UNCHANGED <<trade_history, daily_trades, daily_pnl, daily_pnl_history,
                         consecutive_losses, cooldown_until, notifications>>

\* the market bid of _check_entry returns
BidReturn(t) ==
    /\ pc[t] = "entry_order"
    /\ UNCHANGED <<now, keys_configured>>
    /\ entry_locks' = [entry_locks EXCEPT ![frame[t].symbol] = 0]
    /\ \E status \in Outcomes :
          IF status = "EXC"
          THEN Abort(t) /\ UNCHANGED riskVars
          ELSE /\ Finish(t, frame[t], can_result[t], exit_signal[t], status)
               /\ IF status = "0000"
                  THEN /\ RegisterPosition(frame[t].symbol, frame[t].price, frame[t].quantity)
                       /\ UNCHANGED <<trade_history, daily_trades, daily_pnl, daily_pnl_history,
                                      consecutive_losses, cooldown_until, notifications>>
                  ELSE UNCHANGED riskVars

\* The engine: the streaming loop awaits _dispatch for one message at a time,
\* so one transaction handler runs.
Engine(F) ==
    \/ OnTransaction(1, F)
    \/ NextTick(1, F)
    \/ AskReturn(1, F)
    \/ CashReturn(1, F)
    \/ BidReturn(1)

\* every configured symbol but one, and one that is not configured
EngineFeed ==
    Feed({"BTC", "ETH", "XRP", "SOL", "ADA"}, {Tx(100000, 1), Tx(110000, 1), Tx(0, 1)},
         1, {10}, {1}, {"hold", "buy"}, MaxEntries, {0, 45000000})

Next ==
    \/ Engine(EngineFeed)
    \/ AdvanceClock

Spec == Init /\ [][Next]_vars

\* The engine on one symbol whose prices fall and rise over batches of
\* ticks, with the day's reset called from outside.
LossFeed ==
    Feed({"BTC"}, {Tx(100000, 1), Tx(110000, 1), Tx(120000, 1)},
         MaxTxList, {10}, {1}, {"hold", "buy"}, MaxEntries, {45000000})

NextLoss ==
    \/ Engine(LossFeed)
    \/ AdvanceClock
    \/ DailyReset

SpecLoss == Init /\ [][NextLoss]_vars

\* The engine over every regime, signal strength and cash level.
SizingFeed ==
    Feed({"BTC"}, {Tx(100000, 1), Tx(110000, 1)},
         1, {10}, {0, 1, 2}, {"hold", "buy", "strong_buy"}, SizingEntries,
         {0, 10000000, 15000000, 25000000, 45000000})

NextSizing ==
    \/ Engine(SizingFeed)
    \/ AdvanceClock

SpecSizing == Init /\ [][NextSizing]_vars

\* Transaction handlers running concurrently, as the risk manager's lock and
\* the entry locks provide for.
ConcFeed ==
    Feed({"BTC", "ETH"}, {Tx(100000, 1), Tx(110000, 1)},
         1, {10}, {1}, {"hold", "buy"}, ConcEntries, {45000000})

Handler(t, F) ==
    \/ OnTransaction(t, F)
    \/ NextTick(t, F)
    \/ AskReturn(t, F)
    \/ EntryWake(t, F)
    \/ CashReturn(t, F)
    \/ BidReturn(t)

NextConc == \E t \in Tasks : Handler(t, ConcFeed)

SpecConc == Init /\ [][NextConc]_vars

\* The concurrent handlers on more symbols than positions may be held.
RaceFeed ==
    Feed({"BTC", "ETH", "XRP", "SOL"}, {Tx(100000, 1), Tx(98000, 1)},
         1, {10}, {1}, {"hold", "buy"}, MaxEntries, {45000000})

NextRace ==
    /\ \E t \in Tasks : Handler(t, RaceFeed)
    /\ Len(trade_history') <= RaceCloses

SpecRace == Init /\ [][NextRace]_vars

(* ------------------------------------------- the risk manager's callers *)
\* What the callers of the risk manager's methods pass in a behaviour: the
\* symbols, the entry prices and the quantity of register_position, the prices
\* of update_price and close_position, the realized volatility (thousandths)
\* and the regimes whose trailing_mult update_price is given, the cash and
\* the cash ratio (percent) of can_enter, and how many closes are made.
Calls(symbols, entries, quantity, prices, exits, rvs, regimes, cash, ratios, closes) ==
    [symbols |-> symbols, entries |-> entries, quantity |-> quantity, prices |-> prices,
     exits |-> exits, rvs |-> rvs, regimes |-> regimes, cash |-> cash, ratios |-> ratios,
     closes |-> closes]

CallCanEnter(P) ==
    \E symbol \in P.symbols, cash \in P.cash, ratio \in P.ratios :
        /\ can_result' = [can_result EXCEPT ![1] = CanEnterCall(symbol, cash, ratio)]
        /\ UNCHANGED <<riskVars, now, keys_configured, entry_locks, pc, frame, inflight,
                       exit_signal, order_result, callVars>>

CallRegisterPosition(P) ==
    \E symbol \in P.symbols, entry_price \in P.entries :
        /\ RegisterPosition(symbol, entry_price, P.quantity)
        /\ UNCHANGED <<trade_history, daily_trades, daily_pnl, daily_pnl_history,
                       consecutive_losses, cooldown_until, notifications, now,
                       keys_configured, taskVars, callVars>>

CallClosePosition(P) ==
    \E symbol \in P.symbols, exit_price \in P.exits :
        /\ Len(trade_history) < P.closes
        /\ ClosePosition(symbol, exit_price)
        /\ UNCHANGED <<now, keys_configured, taskVars, callVars>>

CallUpdatePrice(P) ==
    \E symbol \in P.symbols, current_price \in P.prices, rv \in P.rvs, reg \in P.regimes :
        LET trailing_mult == REGIME_PARAMS[reg].trailing_mult
            call == [symbol |-> symbol, current_price |-> current_price,
                     realized_volatility |-> rv, trailing_mult |-> trailing_mult,
                     held |-> symbol \in Held, action |-> "none"]
        IN  /\ IF symbol \notin Held
               THEN /\ update_call' = call
                    /\ UNCHANGED positions
               ELSE LET upd == UpdatePrice(positions[symbol], current_price, rv, trailing_mult)
                    IN  /\ update_call' = [call EXCEPT !.action = upd.action]
                        /\ positions' = [positions EXCEPT ![symbol] = upd.pos]
            /\ UNCHANGED <<trade_history, daily_trades, daily_pnl, daily_pnl_history,
                           consecutive_losses, cooldown_until, notifications, now,
                           keys_configured, taskVars, stats, micro, book_call, tape,
                           score_call, ws, hostVars>>

\* The entry checks of the risk manager on four symbols, with closes at a
\* loss of 1% of the capital each.
RiskCalls ==
    Calls({"BTC", "ETH", "XRP", "SOL"}, {100000}, 50 * QtyScale, {100000},
          {90000}, {10}, {1}, {0, 45000000}, {20}, RiskCloses)

NextRisk ==
    \/ CallCanEnter(RiskCalls)
    \/ CallRegisterPosition(RiskCalls)
    \/ CallClosePosition(RiskCalls)
    \/ AdvanceClock

SpecRisk == Init /\ [][NextRisk]_vars

\* get_stats: the number of trades and the Kelly fraction it reports
GetStats ==
    /\ stats' = [total_trades |-> Len(trade_history),
                 kelly_fraction |-> CalcKellyFraction(trade_history)]
    /\ UNCHANGED <<riskVars, now, keys_configured, taskVars, update_call,
                   micro, book_call, tape, score_call, ws, hostVars>>

\* The trades of a history of n closes of one-coin positions entered at
\* 100000: w closed at win_exit, then z at the entry price, the rest at
\* loss_exit.
HistoryOf(n, w, z, win_exit, loss_exit) ==
    [i \in 1..n |->
        TradeRecord(Position("BTC", 100000, QtyScale),
                    IF i <= w THEN win_exit ELSE IF i <= w + z THEN 100000 ELSE loss_exit)]

\* The risk manager after the closes of such a history, all made at the
\* start of the clock: the losing closes are the last ones.
InitKelly ==
    \E n \in KellyTradesMin..(KellyTradesMax - 1), w \in 0..KellyTradesMax, z \in {0, 3},
       win_exit \in {101000, 102000}, loss_exit \in {99000, 98000} :
        LET h == HistoryOf(n, w, z, win_exit, loss_exit)
            l == n - w - z
        IN  /\ w + z <= n
            /\ positions = <<>>
            /\ trade_history = h
            /\ daily_trades = h
            /\ daily_pnl = w * (win_exit - 100000) + l * (loss_exit - 100000)
            /\ daily_pnl_history = <<>>
            /\ consecutive_losses = l
            /\ cooldown_until = IF l >= MAX_CONSECUTIVE_LOSSES THEN COOLDOWN_SECONDS ELSE 0
            /\ notifications = Max(0, l - MAX_CONSECUTIVE_LOSSES + 1)
            /\ now = 0
            /\ keys_configured = TRUE
            /\ entry_locks = [s \in TARGET_SYMBOLS |-> 0]
            /\ pc = [t \in Tasks |-> "idle"]
            /\ frame = [t \in Tasks |-> IdleFrame]
            /\ inflight = [t \in Tasks |-> NoReq]
            /\ can_result = [t \in Tasks |-> NoResult]
            /\ exit_signal = [t \in Tasks |-> NoSignal]
            /\ order_result = [t \in Tasks |-> "-"]
            /\ update_call = NoUpdate
            /\ stats = NoStats
    /\ InitMicro
    /\ score_call = NoScore
    /\ ws = EngineGateway
    /\ InitHost

KellyCalls ==
    Calls({"BTC"}, {100000}, QtyScale, {100000}, {102000, 100000, 99000},
          {10}, {1}, {45000000}, {20}, KellyTradesMax)

NextKelly ==
    \/ GetStats
    \/ CallRegisterPosition(KellyCalls)
    \/ CallClosePosition(KellyCalls)

SpecKelly == InitKelly /\ [][NextKelly]_vars

\* One position followed through its prices: around the stop loss (98000 at
\* a volatility of 1%), the activation of the trailing stop (101500) and the
\* trailing stop below a high of 102000 (99705 in the sideways regime), in
\* every regime and at a volatility under the floor.
TrailCalls ==
    Calls({"BTC"}, {100000}, QtyScale,
          {98000, 99000, 99700, 99706, 101499, 101500, 102000},
          {100000}, {3, 10}, {0, 1, 2}, {45000000}, {20}, TrailCloses)

NextTrail ==
    \/ CallRegisterPosition(TrailCalls)
    \/ CallUpdatePrice(TrailCalls)
    \/ CallClosePosition(TrailCalls)

SpecTrail == Init /\ [][NextTrail]_vars

(* -------------------------------------------- the microstructure's callers *)
\* the order books a caller passes: every book of up to MaxLevels levels,
\* and a book deeper than OBI_DEPTH_LEVELS
Books ==
    UNION {[1..n -> {0, 1}] : n \in 0..MaxLevels}
        \cup {[i \in 1..(OBI_DEPTH_LEVELS + 1) |-> 1]}

\* the books of a symbol the callers watch less closely
QuietBooks == {<<>>, <<1>>}

\* the callers stop on a symbol once its history holds MaxOfi values
OfiRoom(symbol) == Len(micro[symbol].ofi_history) < MaxOfi

\* ... or once the history of its OBIs does
ObiRoom(symbol) == Len(micro[symbol].obi_history) < MaxOfi

\* calls with books whose best prices stand still at 100 and 101
CallUpdateOrderbook ==
    \E symbol \in {"BTC", "ETH"} :
      \E bids \in IF symbol = "BTC" THEN Books ELSE QuietBooks,
         asks \in IF symbol = "BTC" THEN Books ELSE QuietBooks :
        /\ ObiRoom(symbol)
        /\ UpdateOrderbook(symbol, Levels(bids, 100, -1), Levels(asks, 101, 1))
        /\ UNCHANGED <<riskVars, now, keys_configured, taskVars, update_call, stats, tape,
                       score_call, ws, hostVars>>

NextBook == CallUpdateOrderbook

SpecBook == Init /\ [][NextBook]_vars

\* the best levels a caller passes: none, or one level at one of the prices
\* with one of the quantities
TopBooks(prices, quantities) ==
    {<<>>} \cup {<<[price |-> p, quantity |-> q]>> : p \in prices, q \in quantities}

\* calls with books whose best prices move by one, the bid under 100 and the
\* ask over 102
CallUpdateTopOfBook ==
    \E symbol \in {"BTC", "ETH"} :
      \E bids \in IF symbol = "BTC" THEN TopBooks({99, 100}, {0, 1, 2})
                                     ELSE {Levels(<<1>>, 100, -1)},
         asks \in IF symbol = "BTC" THEN TopBooks({102, 103}, {0, 1})
                                     ELSE {Levels(<<1>>, 102, 1)} :
        /\ OfiRoom(symbol)
        /\ UpdateOrderbook(symbol, bids, asks)
        /\ UNCHANGED <<riskVars, now, keys_configured, taskVars, update_call, stats, tape,
                       score_call, ws, hostVars>>

NextOfi == CallUpdateTopOfBook

SpecOfi == Init /\ [][NextOfi]_vars

\* A tape of transactions of one symbol at 100000: of every period of them
\* the first buys are bids of qty_bid, the others asks of qty_ask.
Tape(symbol, period, buys, qty_bid, qty_ask) ==
    [symbol |-> symbol, period |-> period, buys |-> buys, qty_bid |-> qty_bid,
     qty_ask |-> qty_ask, pos |-> 0]
\* the side and the quantity of the transaction after i of them
TapeSide(T, i) == IF i % T.period < T.buys THEN "bid" ELSE "ask"
TapeQty(T, i) == IF i % T.period < T.buys THEN T.qty_bid ELSE T.qty_ask

Tapes ==
    {Tape(symbol, t[1], t[2], t[3], t[4]) :
        symbol \in {"BTC", "ETH"},
        t \in {<<1, 1, 20, 20>>, <<2, 1, 20, 20>>, <<2, 1, 30, 10>>, <<3, 1, 20, 20>>,
               <<7, 3, 20, 20>>, <<7, 3, 20, 50>>, <<11, 10, 100, 1>>}}

InitTape ==
    /\ positions = <<>>
    /\ trade_history = <<>>
    /\ daily_trades = <<>>
    /\ daily_pnl = 0
    /\ daily_pnl_history = <<>>
    /\ consecutive_losses = 0
    /\ cooldown_until = 0
    /\ notifications = 0
    /\ now = 0
    /\ keys_configured = TRUE
    /\ entry_locks = [s \in TARGET_SYMBOLS |-> 0]
    /\ pc = [t \in Tasks |-> "idle"]
    /\ frame = [t \in Tasks |-> IdleFrame]
    /\ inflight = [t \in Tasks |-> NoReq]
    /\ can_result = [t \in Tasks |-> NoResult]
    /\ exit_signal = [t \in Tasks |-> NoSignal]
    /\ order_result = [t \in Tasks |-> "-"]
    /\ update_call = NoUpdate
    /\ stats = NoStats
    /\ micro = [s \in TARGET_SYMBOLS |-> NewMicroState]
    /\ book_call = NoBook
    /\ tape \in Tapes
    /\ score_call = NoScore
    /\ ws = EngineGateway
    /\ InitHost

\* the next transaction of the tape reaches update_trade
CallUpdateTrade ==
    /\ tape.pos < VpinTrades
    /\ UpdateTrade(tape.symbol, 100000, TapeQty(tape, tape.pos), TapeSide(tape, tape.pos))
    /\ tape' = [tape EXCEPT !.pos = tape.pos + 1]
    /\ UNCHANGED <<riskVars, now, keys_configured, taskVars, update_call, stats, book_call,
                   score_call, ws, hostVars>>

NextTape == CallUpdateTrade

SpecTape == InitTape /\ [][NextTape]_vars

(* ------------------------------------------------- the ensemble's callers *)
CallComputeFinalScore ==
    \E obi \in {0 - SignalScale, 0, SignalScale}, vpin \in {0 - SignalScale, 0},
       momentum \in {0, SignalScale \div 2}, regime \in {0 - SignalScale, 0, SignalScale},
       sentiment \in {0, SignalScale \div 2}, funding \in {0 - (SignalScale \div 2), 0},
       volatility \in {0, SignalScale} :
        LET x == Signals(obi, vpin, momentum, regime, sentiment, funding, volatility)
        IN  /\ \E action \in ActionsOf(WeightedScore(EffectiveWeights(x), x)) :
                  score_call' = FinalScore(x, action)
            /\ UNCHANGED <<riskVars, now, keys_configured, taskVars, update_call, stats,
                           micro, book_call, tape, ws, hostVars>>

NextEnsemble == CallComputeFinalScore

SpecEnsemble == Init /\ [][NextEnsemble]_vars

\* The streaming loop of the gateway, with every outcome of its awaits.
NextGateway ==
    \/ WsConnect
    \/ WsSubscribeOrderbook
    \/ WsSubscribeTransaction
    \/ WsMessage
    \/ WsWait

SpecGateway == Init /\ [][NextGateway]_vars

\* A caller registers further handlers on the engine's gateway.
CallOn ==
    /\ ws.pc = "connect" /\ ws.waits = <<>>
    /\ \E event \in {"orderbookdepth", "transaction"}, callback \in {"h1", "h2"} :
         /\ Len(ws.callbacks[event]) < 1 + MaxHandlers
         /\ ws' = On(ws, event, callback)
    /\ GatewayFrame

\* One pass of the streaming loop over the handlers registered before it.
NextDispatch ==
    \/ CallOn
    \/ WsConnect
    \/ WsSubscribeOrderbook
    \/ WsSubscribeTransaction
    \/ WsMessage

SpecDispatch == Init /\ [][NextDispatch]_vars

\* get_balance, get_account, place_order and cancel_order called directly
CallPrivatePost ==
    /\ \E endpoint \in {"/info/balance", "/info/account", "/trade/place", "/trade/cancel"},
          answer \in ExchangeStatuses :
         private_call' = PrivatePost(endpoint, answer)
    /\ UNCHANGED <<riskVars, now, keys_configured, taskVars, update_call, stats, micro,
                   book_call, tape, score_call, ws, public_call, initial_data,
                   running, funding_loop, tick_run, entry_call, estimators, risk_call, runs>>

\* The engine and direct private calls, with and without API keys.
KeysFeed ==
    Feed({"BTC", "ETH"}, {Tx(100000, 1), Tx(98000, 1)},
         1, {10}, {1}, {"hold", "buy"}, MaxEntries, {0, 45000000})

NextKeys ==
    \/ Engine(KeysFeed)
    \/ CallPrivatePost

SpecKeys == Init /\ [][NextKeys]_vars

\* the four public getters called directly
CallPublicGet ==
    /\ \E endpoint \in PublicEndpoints, outcome \in PublicOutcomes :
         public_call' = [endpoint |-> endpoint, outcome |-> outcome,
                         result |-> PublicGet(endpoint, outcome)]
    /\ UNCHANGED <<riskVars, now, keys_configured, taskVars, update_call, stats, micro,
                   book_call, tape, score_call, ws, private_call, initial_data,
                   running, funding_loop, tick_run, entry_call, estimators, risk_call, runs>>

\* one pass of the loop of _load_initial_data: the candles of the next symbol
\* are fetched; an exception of the getter leaves _load_initial_data and run,
\* empty candles skip the symbol, others are loaded
LoadInitialData ==
    /\ initial_data.pc = "load"
    /\ \E outcome \in PublicOutcomes :
         LET candles == PublicGet("candlestick", outcome)
             symbol == TargetSymbolList[initial_data.at]
             next == IF initial_data.at = Len(TargetSymbolList)
                     THEN [initial_data EXCEPT !.pc = "done"]
                     ELSE [initial_data EXCEPT !.at = initial_data.at + 1]
         IN  initial_data' =
               IF candles.raised THEN [initial_data EXCEPT !.pc = "raised"]
               ELSE IF candles.value \in {"{}", "[]"} THEN next
               ELSE [next EXCEPT !.loaded = initial_data.loaded \cup {symbol}]
    /\ UNCHANGED <<riskVars, now, keys_configured, taskVars, update_call, stats, micro,
                   book_call, tape, score_call, ws, private_call, public_call,
                   running, funding_loop, tick_run, entry_call, estimators, risk_call, runs>>

NextPublic ==
    \/ CallPublicGet
    \/ LoadInitialData

SpecPublic == Init /\ [][NextPublic]_vars

\* what the shutdown steps leave alone
ShutdownFrame ==
    UNCHANGED <<riskVars, now, keys_configured, taskVars, update_call, stats, micro,
                book_call, tape, score_call, private_call, public_call, initial_data,
                tick_run, entry_call, estimators, risk_call, runs>>

\* the emergency stop of the webhook clears the running flag; it then sells and
\* closes every position held, of which there are none here
EmergencyStop ==
    /\ running /\ Held = {}
    /\ running' = FALSE
    /\ UNCHANGED <<ws, funding_loop>>
    /\ ShutdownFrame

\* the task of run() is cancelled: gather cancels the two loops, which end at
\* their await, and the finally clause clears the flag and closes the socket
RunCancelled ==
    /\ ws.pc # "cancelled"
    /\ running' = FALSE
    /\ ws' = [ws EXCEPT !.pc = "cancelled"]
    /\ funding_loop' = IF funding_loop = "returned" THEN funding_loop ELSE "cancelled"
    /\ ShutdownFrame

\* the head of the loop of _funding_rate_loop: with the flag set the funding
\* rates are fetched and the loop goes to sleep, else it returns
FundingPoll ==
    /\ funding_loop = "check"
    /\ funding_loop' = IF running THEN "sleep" ELSE "returned"
    /\ UNCHANGED <<ws, running>>
    /\ ShutdownFrame

\* the sleep of 300 s is over
FundingSleep ==
    /\ funding_loop = "sleep"
    /\ funding_loop' = "check"
    /\ UNCHANGED <<ws, running>>
    /\ ShutdownFrame

\* a step of the streaming loop that the event loop takes by itself
WsStep ==
    \/ WsConnect
    \/ WsSubscribeOrderbook
    \/ WsSubscribeTransaction
    \/ WsWait

NextShutdown ==
    \/ WsStep
    \/ WsMessage
    \/ FundingPoll
    \/ FundingSleep
    \/ EmergencyStop
    \/ RunCancelled

\* The two tasks of run() with the ways the flag is cleared. The event loop
\* runs every task that is ready: a loop that can take its next step takes it.
SpecShutdown ==
    /\ Init /\ [][NextShutdown]_vars
    /\ WF_vars(WsStep)
    /\ WF_vars(FundingPoll \/ FundingSleep)

\* the awaits of one tick of _on_transaction in another order
StageOrder_ExitBeforeRegime ==
    <<"update_trade", "volatility", "check_exit", "regime", "check_entry">>

\* the awaits of one tick of _on_transaction, in the order of the code
StageOrder == <<"update_trade", "volatility", "regime", "check_exit", "check_entry">>

\* the place of a stage in the order, and the first tick after `from` that the
\* loop does not skip (0: none)
StageIndex(stage) == CHOOSE i \in 1..Len(StageOrder) : StageOrder[i] = stage
NextValidTick(list, from) ==
    LET later == {i \in (from + 1)..Len(list) : list[i]}
    IN  IF later = {} THEN 0 ELSE CHOOSE i \in later : \A j \in later : i <= j

\* the loop of _on_transaction goes to its next tick, or the handler returns
TickLoop(run, from) ==
    LET i == NextValidTick(run.list, from)
    IN  IF i = 0 THEN [run EXCEPT !.pc = "idle", !.at = 0]
        ELSE [run EXCEPT !.pc = StageOrder[1], !.at = i]

\* a transaction message reaches _on_transaction: a symbol that is not
\* configured returns at once, else the loop starts at the first tick it does
\* not skip
TickMessage ==
    /\ tick_run.pc = "idle"
    /\ \E symbol \in {"BTC", "ADA"}, n \in 0..MaxTicks :
         \E list \in [1..n -> BOOLEAN] :
            LET run == [NoTickRun EXCEPT !.symbol = symbol, !.list = list]
            IN  tick_run' = IF symbol \notin TARGET_SYMBOLS THEN run ELSE TickLoop(run, 0)
    /\ UNCHANGED <<riskVars, now, keys_configured, taskVars, update_call, stats, micro,
                   book_call, tape, score_call, ws, private_call, public_call, initial_data,
                   running, funding_loop, entry_call, estimators, risk_call, runs>>

\* one await of the tick returns, or raises: the estimator has then taken the
\* tick in, or the exit or the entry has been evaluated, and the handler goes to
\* the next await; an exception leaves the handler and the rest of the message
TickStage ==
    /\ tick_run.pc # "idle"
    /\ \E raised \in BOOLEAN :
         LET stage == tick_run.pc
             i == StageIndex(stage)
             absorbed == IF raised \/ stage \notin DOMAIN NoAbsorbed THEN tick_run.absorbed
                         ELSE [tick_run.absorbed EXCEPT ![stage] = tick_run.at]
             done == [tick_run EXCEPT
                        !.absorbed = absorbed,
                        !.log = Append(tick_run.log,
                                       [stage |-> stage, tick |-> tick_run.at,
                                        raised |-> raised, absorbed |-> absorbed])]
         IN  tick_run' =
                IF raised THEN [done EXCEPT !.pc = "idle", !.at = 0]
                ELSE IF i < Len(StageOrder) THEN [done EXCEPT !.pc = StageOrder[i + 1]]
                ELSE TickLoop(done, tick_run.at)
    /\ UNCHANGED <<riskVars, now, keys_configured, taskVars, update_call, stats, micro,
                   book_call, tape, score_call, ws, private_call, public_call, initial_data,
                   running, funding_loop, entry_call, estimators, risk_call, runs>>

NextTicks ==
    \/ TickMessage
    \/ TickStage

SpecTicks == Init /\ [][NextTicks]_vars

\* the VPIN values a symbol's state is given, in hundredths; those at or over the
\* danger threshold are whole tenths, which the signal scale holds exactly
VpinLevels == {0, 50, 79, 80, 90, 100}

\* One _check_entry call on a symbol whose current_vpin is given, with every
\* other signal at rest or at its strongest for a buy (sentiment, funding and
\* volatility together); held: the symbol has a
\* position; approved: can_enter, when asked, approves a positive quantity. The
\* bid is the place_order call at the end of the handler.
CallCheckEntry ==
    \E symbol \in {"BTC"}, current_vpin \in VpinLevels, held \in BOOLEAN,
       approved \in BOOLEAN, obi \in {0, SignalScale}, momentum \in {0, SignalScale},
       regime \in {0, SignalScale}, slow \in {0, SignalScale} :
        LET x == Signals(obi, GetVpinSignal(current_vpin), momentum, regime, slow, slow,
                         slow)
        IN  /\ \E action \in ActionsOf(WeightedScore(EffectiveWeights(x), x)) :
                  LET result == FinalScore(x, action)
                  IN  entry_call' =
                          IF held
                          THEN [NoEntryCall EXCEPT !.symbol = symbol,
                                                   !.current_vpin = current_vpin,
                                                   !.held = TRUE]
                          ELSE [symbol |-> symbol, current_vpin |-> current_vpin,
                                held |-> FALSE, result |-> result,
                                approved |-> approved,
                                bid |-> ~EntryRejected(result) /\ approved]
            /\ UNCHANGED <<riskVars, now, keys_configured, taskVars, update_call, stats,
                           micro, book_call, tape, score_call, ws, private_call,
                           public_call, initial_data, running, funding_loop, tick_run,
                           estimators, risk_call, runs>>

NextVpinGate == CallCheckEntry

SpecVpinGate == Init /\ [][NextVpinGate]_vars

\* the realized volatilities a window gives, in thousandths: under the floor,
\* and on and around the steps of the signal
RvLevels == {0, 9, 10, 11, 30, 50, 51}
\* the conditional volatilities a fit gives, and the roots of the variance a
\* forecast gives
GarchLevels == {20, 30}
ForecastLevels == {0, 25}

EstimatorsFrame ==
    UNCHANGED <<riskVars, now, keys_configured, taskVars, update_call, stats, micro,
                book_call, tape, score_call, ws, private_call, public_call, initial_data,
                running, funding_loop, tick_run, entry_call, risk_call, runs>>

\* the refit of the volatility model is due on the price that comes elapsed
\* seconds after the one before
GarchDue(elapsed) ==
    /\ estimators.volatility.since_train + elapsed >= GARCH_RETRAIN_INTERVAL
    /\ estimators.prices >= GARCH_MIN_RETURNS

\* _on_transaction feeds a price to the volatility model; the caller drops the
\* signal it had read
FeedVolatility ==
    /\ estimators.pc = "volatility"
    /\ \E elapsed \in {0, GARCH_RETRAIN_INTERVAL} :
        \E rv \in IF estimators.prices >= RV_MIN_RETURNS THEN RvLevels ELSE {0},
           step \in IF GarchDue(elapsed) THEN 0..Len(GarchSteps) ELSE {0},
           conditional_volatility \in IF GarchDue(elapsed) THEN GarchLevels ELSE {0},
           variance \in IF GarchDue(elapsed) THEN ForecastLevels ELSE {0} :
            LET prices == Min(estimators.prices + 1, HMM_MIN_PRICES)
                raised_at == IF step = 0 THEN "-" ELSE GarchSteps[step]
            IN  estimators' =
                    [estimators EXCEPT
                        !.pc = "regime", !.prices = prices, !.elapsed = elapsed,
                        !.signal_call = NoSignalCall,
                        !.volatility = VolatilityUpdatePrice(@, prices, elapsed, rv,
                                           raised_at, conditional_volatility, variance)]
    /\ EstimatorsFrame

\* the refit of the regime detector is due on the price just fed
HmmDue ==
    /\ estimators.regime.since_train + estimators.elapsed >= HMM_RETRAIN_INTERVAL
    /\ estimators.prices >= HMM_MIN_PRICES

\* ... and then the same price to the regime detector
FeedRegime ==
    /\ estimators.pc = "regime"
    /\ \E step \in IF HmmDue THEN 0..Len(HmmSteps) ELSE {0},
          regime \in IF HmmDue THEN {0, 2} ELSE {1} :
            LET raised_at == IF step = 0 THEN "-" ELSE HmmSteps[step]
            IN  estimators' =
                    [estimators EXCEPT
                        !.pc = "volatility",
                        !.regime = RegimeUpdatePrice(@, estimators.prices,
                                                     estimators.elapsed, raised_at, regime)]
    /\ EstimatorsFrame

\* a get_signal call on the volatility model
CallVolatilityGetSignal ==
    /\ estimators.pc = "volatility"
    /\ estimators' =
          [estimators EXCEPT !.signal_call =
              [current_rv |-> estimators.volatility.current_rv,
               signal |-> VolatilitySignal(estimators.volatility.current_rv),
               called |-> TRUE]]
    /\ EstimatorsFrame

NextEstimators == FeedVolatility \/ FeedRegime \/ CallVolatilityGetSignal

SpecEstimators == Init /\ [][NextEstimators]_vars

\* daily_reset called by a caller that keeps the summary
CallDailyReset ==
    /\ DailyResetState
    /\ risk_call' = [NoRiskCall EXCEPT !.fn = "daily_reset",
                                       !.summary = <<DailySummary(daily_pnl_history')>>]
    /\ UNCHANGED <<now, keys_configured, taskVars, update_call, stats, micro, book_call,
                   tape, score_call, ws, hostRest, runs>>

\* Days of two symbols: registrations at 100000, closes at a loss or at a
\* gain of 1% of the capital, and the reset.
DayCalls ==
    Calls({"BTC", "ETH"}, {100000}, 50 * QtyScale, {100000}, {90000, 110000}, {10}, {1},
          {45000000}, {20}, RiskCloses)

NextDay ==
    \/ CallRegisterPosition(DayCalls)
    \/ CallClosePosition(DayCalls)
    \/ CallDailyReset
    \/ AdvanceClock

SpecDay == Init /\ [][NextDay]_vars

\* close_position called by a caller that reads is_cooldown first and keeps
\* what the call returns: the record, or nothing for None
CallCloseReturning(P) ==
    \E symbol \in P.symbols, exit_price \in P.exits :
        /\ Len(trade_history) < P.closes
        /\ ClosePosition(symbol, exit_price)
        /\ risk_call' =
              [NoRiskCall EXCEPT
                  !.fn = "close_position", !.symbol = symbol,
                  !.is_cooldown = now < cooldown_until,
                  !.record = IF symbol \in Held
                             THEN <<TradeRecord(positions[symbol], exit_price)>>
                             ELSE <<>>]
        /\ UNCHANGED <<now, keys_configured, taskVars, update_call, stats, micro, book_call,
                       tape, score_call, ws, hostRest, runs>>

\* One symbol registered and closed at a loss or at a gain over a cooldown
\* and past it.
BreakerCalls ==
    Calls({"BTC"}, {100000}, 50 * QtyScale, {100000}, {90000, 110000}, {10}, {1},
          {45000000}, {20}, BreakerCloses)

NextBreaker ==
    \/ CallRegisterPosition(BreakerCalls)
    \/ CallCloseReturning(BreakerCalls)
    \/ CallCanEnter(BreakerCalls)
    \/ CallDailyReset
    \/ AdvanceClock

SpecBreaker == Init /\ [][NextBreaker]_vars

\* The engine on three symbols in the bullish regime, each buy a twentieth of
\* the capital and each fall a fifth of the price, so that two losses close
\* the daily loss gate and three start the cooldown; the day's reset is
\* called from outside.
GatesFeed ==
    Feed({"BTC", "ETH", "XRP"}, {Tx(100000, 1), Tx(80000, 1)},
         1, {10}, {0}, {"hold", "buy"}, MaxEntries, {45000000})

NextGates ==
    \/ Engine(GatesFeed)
    \/ AdvanceClock
    \/ DailyReset

SpecGates == Init /\ [][NextGates]_vars

\* The engine on one symbol after a history of some twenty closes, among
\* them the histories whose Kelly fraction is clamped to 0, with the clock
\* going past the cooldown the losses of the history started.
ZeroSizeFeed ==
    Feed({"BTC"}, {Tx(100000, 1), Tx(90000, 1)},
         1, {10}, {1}, {"hold", "buy"}, KellyTradesMax, {45000000})

NextZeroSize ==
    \/ Engine(ZeroSizeFeed)
    \/ AdvanceClock

SpecZeroSize == InitKelly /\ [][NextZeroSize]_vars

\* The state of a symbol after n updates with the same book, a best bid of
\* 2 at 100 and a best ask of 1 at 102.
RECURSIVE AfterSameBook(_)
AfterSameBook(n) ==
    IF n = 0 THEN NewMicroState
    ELSE OfiAfter(ObiAfter(AfterSameBook(n - 1), Obi(2, 1)), 100, 2, 102, 1)

\* The microstructure one update short of its first moving average of BTC.
InitQuiet ==
    /\ positions = <<>>
    /\ trade_history = <<>>
    /\ daily_trades = <<>>
    /\ daily_pnl = 0
    /\ daily_pnl_history = <<>>
    /\ consecutive_losses = 0
    /\ cooldown_until = 0
    /\ notifications = 0
    /\ now = 0
    /\ keys_configured = TRUE
    /\ entry_locks = [s \in TARGET_SYMBOLS |-> 0]
    /\ pc = [t \in Tasks |-> "idle"]
    /\ frame = [t \in Tasks |-> IdleFrame]
    /\ inflight = [t \in Tasks |-> NoReq]
    /\ can_result = [t \in Tasks |-> NoResult]
    /\ exit_signal = [t \in Tasks |-> NoSignal]
    /\ order_result = [t \in Tasks |-> "-"]
    /\ update_call = NoUpdate
    /\ stats = NoStats
    /\ micro = [s \in TARGET_SYMBOLS |->
                  IF s = "BTC" THEN AfterSameBook(OBI_LOOKBACK - 1) ELSE NewMicroState]
    /\ book_call = NoBook
    /\ tape = NoTape
    /\ score_call = NoScore
    /\ ws = EngineGateway
    /\ InitHost

\* calls with the books of one level of CallUpdateTopOfBook, until the
\* history holds MaxOfi OBIs more
CallUpdateQuietBook ==
    \E bids \in TopBooks({99, 100}, {0, 1, 2}), asks \in TopBooks({102, 103}, {0, 1}) :
        /\ Len(micro["BTC"].obi_history) < OBI_LOOKBACK - 1 + MaxOfi
        /\ UpdateOrderbook("BTC", bids, asks)
        /\ UNCHANGED <<riskVars, now, keys_configured, taskVars, update_call, stats, tape,
                       score_call, ws, hostVars>>

\* get_obi_signal called by a caller that keeps what it returns
CallGetObiSignal ==
    \E symbol \in {"BTC", "ETH"} :
        /\ book_call' = [NoBook EXCEPT !.symbol = symbol,
                                       !.signal = <<GetObiSignal(micro[symbol])>>]
        /\ UNCHANGED <<riskVars, now, keys_configured, taskVars, update_call, stats, micro,
                       tape, score_call, ws, hostVars>>

NextQuiet == CallUpdateQuietBook \/ CallGetObiSignal

SpecQuiet == InitQuiet /\ [][NextQuiet]_vars

\* Two runs of the engine that differ in the ETH ticks only: both take each
\* BTC tick, the second run takes ETH ticks in between.
TickOfA ==
    \E price \in {100000, 97900} :
        /\ Len(runs[1].a_ticks) <= MaxTicksOfA
        /\ runs' = [r \in 1..2 |-> RunTick(runs[r], "BTC", price)]
        /\ UNCHANGED <<riskVars, now, keys_configured, taskVars, update_call, stats, micro,
                       book_call, tape, score_call, ws, hostRest, risk_call>>

TickOfB ==
    /\ runs[2].b_ticks < MaxTicksOfB
    /\ runs' = [runs EXCEPT ![2] = RunTick(runs[2], "ETH", 5000)]
    /\ UNCHANGED <<riskVars, now, keys_configured, taskVars, update_call, stats, micro,
                   book_call, tape, score_call, ws, hostRest, risk_call>>

NextWindow == TickOfA \/ TickOfB

SpecWindow == Init /\ [][NextWindow]_vars

\* The engine on one symbol that is entered and falls under its stop, with
\* an exchange that may refuse each ask.  The calls the handler awaits
\* return; ticks that meet the exit condition keep arriving, and of the asks
\* that keep being placed one is acknowledged.
RetryFeed ==
    Feed({"BTC"}, {Tx(100000, 1), Tx(97000, 1)},
         MaxTxList, {10}, {1}, {"hold", "buy"}, RetryEntries, {45000000})

NextRetry == Engine(RetryFeed)

\* a tick arrives on which update_price returns an exit action
ExitTick == OnTransaction(1, RetryFeed) /\ pc'[1] = "exit_order"
\* the exchange acknowledges the ask
AskAcknowledged == AskReturn(1, RetryFeed) /\ Len(trade_history') = Len(trade_history) + 1

SpecRetry ==
    /\ Init
    /\ [][NextRetry]_vars
    /\ WF_vars(NextTick(1, RetryFeed))
    /\ WF_vars(AskReturn(1, RetryFeed))
    /\ WF_vars(CashReturn(1, RetryFeed))
    /\ WF_vars(BidReturn(1))
    /\ SF_vars(ExitTick)
    /\ SF_vars(AskAcknowledged)

(* ------------------------------------------------------------ properties *)
\* steps of a handler, told by its position before and after
Returns(t, p) == pc[t] = p /\ pc'[t] # p
\* a close_position that found the position: the trade history grows
Closes == Len(trade_history') = Len(trade_history) + 1
LastTrade == trade_history'[Len(trade_history')]

\* C1: in every reachable state of the engine the number of registered
\* positions is at most MAX_CONCURRENT_POSITIONS, whatever the events and the
\* exchange's answers.
C1_PositionLimit == Cardinality(Held) <= MAX_CONCURRENT_POSITIONS

\* three positions are held and can_enter has refused a fourth symbol
C1_Witness ==
    /\ Cardinality(Held) = MAX_CONCURRENT_POSITIONS
    /\ can_result[1].result.reason = "max_positions"
    /\ can_result[1].symbol \notin Held

\* C6: a position is registered only in the step in which the market bid of
\* that entry returns "0000", at the tick's price and the ordered quantity;
\* a bid that returns anything else (or raises) leaves the risk manager's
\* state as it was, and without API keys (every order answered "9999")
\* nothing is ever registered.
C6_RegisterOnlyAcknowledged ==
    /\ [][\A s \in Held' :
            (s \notin Held \/ positions'[s].quantity # positions[s].quantity
                \/ positions'[s].entry_price # positions[s].entry_price)
            => \E t \in Tasks :
                  /\ Returns(t, "entry_order")
                  /\ inflight[t] = Order(s, "bid", frame[t].quantity)
                  /\ order_result'[t] = "0000"
                  /\ positions'[s] = Position(s, frame[t].price, frame[t].quantity)]_vars
    /\ [][\A t \in Tasks :
            Returns(t, "entry_order") /\ order_result'[t] # "0000"
            => UNCHANGED riskVars]_vars
    /\ [](~keys_configured => Held = {})

\* a bid was refused by the exchange and its symbol is not held
C6_Witness ==
    /\ pc[1] = "tick"
    /\ can_result[1].result.can
    /\ order_result[1] = "5600"
    /\ frame[1].symbol \notin Held

\* C7: a position is closed only in the step in which a market ask for its
\* full quantity returns "0000", and is then recorded as a trade at the
\* tick's price; an ask that returns anything else (or raises) leaves the
\* risk manager's state as it was: the position with its entry price and
\* quantity, the trade records, daily_pnl and the loss counter.
C7_CloseOnlyAcknowledged ==
    /\ [][(Closes \/ (Held' # Held /\ Held' \subseteq Held))
            => \E t \in Tasks :
                  /\ Returns(t, "exit_order")
                  /\ frame[t].symbol \in Held
                  /\ inflight[t] = Order(frame[t].symbol, "ask",
                                         positions[frame[t].symbol].quantity)
                  /\ order_result'[t] = "0000"
                  /\ Held' = Held \ {frame[t].symbol}
                  /\ Closes
                  /\ LastTrade = TradeRecord(positions[frame[t].symbol], frame[t].price)]_vars
    /\ [][\A t \in Tasks :
            Returns(t, "exit_order") /\ order_result'[t] # "0000"
            => UNCHANGED riskVars]_vars

\* the ask of a stop-loss exit was refused and the position is still held
C7_Witness ==
    /\ exit_signal[1].action = "stop_loss"
    /\ order_result[1] = "5600"
    /\ frame[1].symbol \in Held
    /\ trade_history = <<>>

Fires ==
    /\ notifications' = notifications + 1
    /\ cooldown_until' = now + COOLDOWN_SECONDS
Quiet ==
    /\ notifications' = notifications
    /\ cooldown_until' = cooldown_until
LosingClose == Closes /\ LastTrade.pnl < 0

\* C8 as stated: the circuit breaker fires on the losing close that takes
\* consecutive_losses to 3 and in no other step.
C8_FiresExactlyAtThree ==
    [][IF LosingClose /\ consecutive_losses' = MAX_CONSECUTIVE_LOSSES
       THEN Fires ELSE Quiet]_vars

\* C8: the circuit breaker fires on every losing close that leaves
\* consecutive_losses at 3 or more (the third, and each further loss of the
\* streak) and in no other step, over closes, entries and daily resets.
C8_FiresAtThreeOrMore ==
    [][IF LosingClose /\ consecutive_losses' >= MAX_CONSECUTIVE_LOSSES
       THEN Fires ELSE Quiet]_vars

\* a fourth loss in a row has fired the breaker a second time
C8_Witness ==
    /\ consecutive_losses = MAX_CONSECUTIVE_LOSSES + 1
    /\ notifications = 2
    /\ cooldown_until = now + COOLDOWN_SECONDS

\* C9: a close with pnl >= 0 (pnl = 0 too) leaves consecutive_losses at 0,
\* and a close with pnl < 0 leaves it one more than before.
C9_LossCounter ==
    [][Closes =>
          /\ LastTrade.pnl >= 0 => consecutive_losses' = 0
          /\ LastTrade.pnl < 0 => consecutive_losses' = consecutive_losses + 1]_vars

\* after a loss, a close at no gain and no loss has reset the counter
C9_Witness ==
    /\ Len(trade_history) >= 2
    /\ trade_history[Len(trade_history) - 1].pnl < 0
    /\ trade_history[Len(trade_history)].pnl = 0
    /\ consecutive_losses = 0
    /\ daily_pnl_history = <<>>

\* C10: the third consecutive losing close, at time t, sets cooldown_until to
\* t + COOLDOWN_SECONDS; nothing moves cooldown_until back; and every can_enter
\* called while now < cooldown_until returns (false, cooldown, 0), for the
\* symbols, cash levels and regime cash ratios of the calls.
C10_CooldownRefuses ==
    /\ [][LosingClose /\ consecutive_losses = MAX_CONSECUTIVE_LOSSES - 1
            => cooldown_until' = now + COOLDOWN_SECONDS]_vars
    /\ [][cooldown_until' >= cooldown_until]_vars
    /\ [][\A t \in Tasks :
            Returns(t, "entry_cash") /\ now < cooldown_until
            => /\ can_result'[t].symbol = frame[t].symbol
               /\ can_result'[t].result = [can |-> FALSE, reason |-> "cooldown",
                                           max_amount |-> 0]]_vars

\* time has passed since the third loss, and an entry is refused for the cooldown
C10_Witness ==
    /\ consecutive_losses = MAX_CONSECUTIVE_LOSSES
    /\ 0 < now /\ now < cooldown_until
    /\ can_result[1].result.reason = "cooldown"
    /\ can_result[1].available_cash > CapitalPct(MIN_CASH_RESERVE_RATIO)

\* the handlers between the held-check of _check_entry and the end of its bid
Entering(s) == {t \in Tasks : pc[t] \in {"entry_cash", "entry_order"} /\ frame[t].symbol = s}

\* C2 as stated: a registration finds what the can_enter before it checked,
\* fewer than three positions held and its symbol not held, whatever other
\* callers did in between.
C2_CheckAndRegisterAtomic ==
    [][\A t \in Tasks :
          Returns(t, "entry_order") /\ order_result'[t] = "0000"
          => /\ can_result[t].result.can
             /\ Cardinality(Held) < MAX_CONCURRENT_POSITIONS
             /\ frame[t].symbol \notin Held]_vars

\* C3: no bid is evaluated past the held-check or in flight for a symbol that
\* has a registered position, and between its registration and its close a
\* position keeps its entry price and quantity: no second registration
\* overwrites it.
C3_OnePositionPerSymbol ==
    /\ [](\A s \in Held : Entering(s) = {} /\ positions[s].symbol = s)
    /\ [][\A s \in Held \cap Held' :
            /\ positions'[s].entry_price = positions[s].entry_price
            /\ positions'[s].quantity = positions[s].quantity
            /\ positions'[s].highest_price >= positions[s].highest_price
            /\ positions[s].trailing_active => positions'[s].trailing_active]_vars

\* a tick of a held symbol went through the exit check, which raised its
\* highest price, and the entry stopped at the held-check
C3_Witness ==
    /\ pc[2] = "tick"
    /\ frame[2].symbol \in Held
    /\ exit_signal[2].action = "none"
    /\ can_result[2] = NoResult
    /\ positions[frame[2].symbol].highest_price > positions[frame[2].symbol].entry_price

\* C4: of one symbol, at most one entry evaluation is between its held-check
\* and the return of its bid, and it is the holder of the symbol's entry lock;
\* a handler is made to wait only by an entry of its own symbol, never by one
\* of another symbol.
C4_OneBidInFlight ==
    /\ [](\A s \in TARGET_SYMBOLS :
            /\ Cardinality(Entering(s)) <= 1
            /\ \A t \in Entering(s) : entry_locks[s] = t
            /\ entry_locks[s] # 0 => entry_locks[s] \in Entering(s))
    /\ [][\A t \in Tasks :
            pc'[t] = "entry_wait" /\ pc[t] # "entry_wait"
            => \E u \in Tasks \ {t} : u \in Entering(frame'[t].symbol)]_vars

\* one handler waits for the lock of the symbol whose bid is in flight
C4_Witness ==
    /\ pc[1] = "entry_order"
    /\ pc[2] = "entry_wait"
    /\ frame[1].symbol = frame[2].symbol

\* C11: a can_enter call leaves the risk manager's state as it was and
\* answers by the first of its five conditions that holds, in the order
\* cooldown, daily loss limit (daily_pnl / MAX_TOTAL_CAPITAL <= -3%), three or
\* more positions held, the symbol held, no cash above the reserve; every
\* refusal carries the amount 0, and the call allows the entry, with a
\* positive amount, only when none of the five holds.
C11_CanEnterPrecedence ==
    [][can_result' # can_result =>
        /\ UNCHANGED <<riskVars, now>>
        /\ LET c == can_result'[1]
               r == c.result
               cooldown == now < cooldown_until
               cvar == daily_pnl * 100 <= DAILY_CVAR_LIMIT * MAX_TOTAL_CAPITAL_KRW
               full == Cardinality(Held) >= MAX_CONCURRENT_POSITIONS
               held == c.symbol \in Held
               reserve == Max(MIN_CASH_RESERVE_RATIO, c.regime_cash_ratio)
               nocash == c.available_cash <= (MAX_TOTAL_CAPITAL_KRW \div 100) * reserve
           IN  /\ r.reason = IF cooldown THEN "cooldown"
                              ELSE IF cvar THEN "cvar"
                              ELSE IF full THEN "max_positions"
                              ELSE IF held THEN "held"
                              ELSE IF nocash THEN "cash"
                              ELSE "ok"
               /\ r.can <=> r.reason = "ok"
               /\ r.can <=> r.max_amount > 0
               /\ ~r.can => r.max_amount = 0]_vars

\* all five conditions hold at once and can_enter answered by the cooldown
C11_Witness ==
    /\ can_result[1].result.reason = "cooldown"
    /\ now < cooldown_until
    /\ daily_pnl <= CapitalPct(DAILY_CVAR_LIMIT)
    /\ Cardinality(Held) >= MAX_CONCURRENT_POSITIONS
    /\ can_result[1].symbol \in Held
    /\ can_result[1].available_cash = 0

\* a step of update_price on the held symbol s
UpdateStep(s) ==
    /\ s \in Held \cap Held'
    /\ trade_history' = trade_history
    /\ update_call'.symbol = s
    /\ update_call'.held
    /\ \/ update_call' # update_call
       \/ /\ positions'[s] # positions[s]
          /\ positions'[s] # Position(s, positions'[s].entry_price, positions'[s].quantity)

\* C12: a position is registered with highest_price = entry_price, and from
\* then until it is closed every update_price call leaves highest_price at
\* the larger of its old value and the call's price, whatever the call
\* returns (a stop_loss or trailing_stop not followed by a close included):
\* highest_price never falls and is the largest of the entry price and the
\* prices update_price has seen.
C12_HighestMonotone ==
    [][\A s \in Held' :
        /\ positions'[s].highest_price >= positions'[s].entry_price
        /\ \/ s \in Held /\ positions'[s] = positions[s]
           \/ /\ ~UpdateStep(s)
              /\ positions'[s] = Position(s, positions'[s].entry_price,
                                          positions'[s].quantity)
           \/ /\ UpdateStep(s)
              /\ positions'[s].entry_price = positions[s].entry_price
              /\ positions'[s].highest_price >= positions[s].highest_price
              /\ positions'[s].highest_price
                    = Max(positions[s].highest_price, update_call'.current_price)]_vars

\* update_price returned stop_loss under a high of 102000 and the position,
\* not closed, keeps that high
C12_Witness ==
    /\ "BTC" \in Held
    /\ update_call.action = "stop_loss"
    /\ update_call.current_price = 98000
    /\ positions["BTC"].highest_price = 102000

\* C13: an update_price call returns trailing_stop exactly when the trailing
\* stop is active after the call's activation test, the price is at or below
\* highest_price x (1 - 1.5 x max(rv, 0.005) x trailing_mult) and the stop
\* loss condition (price <= entry x (1 - 2 x max(rv, 0.005))) does not hold.
C13_TrailingStop ==
    [][\A s \in Held' : UpdateStep(s) =>
        LET c == update_call'
            entry == positions[s].entry_price
            rv == Max(c.realized_volatility, RV_FLOOR)
            stop == c.current_price * 1000 <= entry * (1000 - 2 * rv)
            below == c.current_price * 4000
                        <= positions'[s].highest_price * (4000 - 3 * rv * c.trailing_mult)
        IN  /\ c.action = "trailing_stop" <=> positions'[s].trailing_active /\ below /\ ~stop
            /\ c.action = "stop_loss" <=> stop]_vars

\* entry 100000, volatility 1%, trailing_mult 1.5: after a price of 102000
\* the trailing stop is active, and at 99700 update_price returns
\* trailing_stop
C13_Witness ==
    /\ "BTC" \in Held
    /\ positions["BTC"].entry_price = 100000
    /\ positions["BTC"].highest_price = 102000
    /\ positions["BTC"].trailing_active
    /\ update_call = [symbol |-> "BTC", current_price |-> 99700, realized_volatility |-> 10,
                      trailing_mult |-> 3, held |-> TRUE, action |-> "trailing_stop"]

\* the counts and sums the Kelly fraction is made of: wins (pnl > 0), the
\* other trades, and the sums of their pnl_pct (basis points)
KellyWins == {i \in 1..Len(trade_history) : trade_history[i].pnl > 0}
KellyLosses == (1..Len(trade_history)) \ KellyWins
KellySumWin == SumPnlPct(trade_history, KellyWins)
KellySumLoss == 0 - SumPnlPct(trade_history, KellyLosses)
\* v basis points is clamp(((b p - q)/b) x 0.25, 0, 0.20) cut to whole basis
\* points: with W wins of N and the sums SW, SL, (b p - q)/b = W (SW - SL)/(N SW)
IsClampedKelly(v) ==
    LET num == KELLY_FRACTION * Cardinality(KellyWins) * (KellySumWin - KellySumLoss)
        den == Len(trade_history) * KellySumWin
    IN  /\ 0 <= v /\ v <= MAX_SINGLE_POSITION_RATIO * 100
        /\ v > 0 => v * den <= num
        /\ v < MAX_SINGLE_POSITION_RATIO * 100 => num < (v + 1) * den

\* C14 as stated: the Kelly fraction is 0.25 under 20 trades and, with 20
\* trades or more, the clamped quarter Kelly, which lies in [0, 0.20].
C14_ClampedFromTwenty ==
    [][stats' # stats =>
        IF stats'.total_trades < KELLY_MIN_TRADES_FOR_CALC
        THEN stats'.kelly_fraction = KELLY_FRACTION
        ELSE /\ stats'.kelly_fraction <= MAX_SINGLE_POSITION_RATIO * 100
             /\ KellySumWin > 0 => IsClampedKelly(stats'.kelly_fraction)]_vars

\* C14: the Kelly fraction is 0.25 under 20 trades; with 20 trades or more
\* of which at least one is a win, at least one is not, and the mean pnl_pct
\* of those that are not is not 0, it is clamp(((b p - q)/b) x 0.25, 0, 0.20)
\* with p = wins/N and b = mean win pct / |mean loss pct|; with 20 trades or
\* more that are all wins, or none a win, or whose losses are all at 0, it is
\* 0.25 again.
C14_KellyFraction ==
    [][stats' # stats =>
        /\ stats'.total_trades = Len(trade_history)
        /\ IF \/ stats'.total_trades < KELLY_MIN_TRADES_FOR_CALC
              \/ KellyWins = {} \/ KellyLosses = {} \/ KellySumLoss = 0
           THEN stats'.kelly_fraction = KELLY_FRACTION
           ELSE IsClampedKelly(stats'.kelly_fraction)]_vars

\* 10 wins of +2% and 10 losses of -1%: 0.0625
C14_Witness ==
    /\ Len(trade_history) = 20
    /\ Cardinality(KellyWins) = 10
    /\ \A i \in KellyWins : trade_history[i].pnl_pct = 200
    /\ \A i \in KellyLosses : trade_history[i].pnl_pct = -100
    /\ stats = [total_trades |-> 20, kelly_fraction |-> 625]

\* a ratio within [lo, hi]
FracWithin(f, lo, hi) == lo * f.den <= f.num /\ f.num <= hi * f.den

\* C15: the OBI update_orderbook returns and the one it stores, of every
\* symbol, lie in [-1, 1], and update_orderbook returns 0 when a side of the
\* book is empty, when the quantities summed over the depth are 0 in all, or
\* when the bid and ask totals are equal.
C15_ObiInRange ==
    [][book_call' # book_call =>
        LET c == book_call'
            depth == Min(OBI_DEPTH_LEVELS, Min(Len(c.bids), Len(c.asks)))
            total_bid == SumDepth(c.bids, depth)
            total_ask == SumDepth(c.asks, depth)
        IN  /\ FracWithin(c.obi, -1, 1)
            /\ \A s \in TARGET_SYMBOLS : FracWithin(micro'[s].current_obi, -1, 1)
            /\ (c.bids = <<>> \/ c.asks = <<>> \/ total_bid + total_ask = 0
                    \/ total_bid = total_ask) => c.obi.num = 0
            /\ c.obi.num = 0 \/ (micro'[c.symbol].current_obi = c.obi
                                  /\ c.obi.num * (total_bid + total_ask)
                                        = (total_bid - total_ask) * c.obi.den)]_vars

\* bids deeper than the depth against two levels of asks, with twice the
\* asks' quantity over those two levels: an OBI of 1/3 is returned and stored
C15_Witness ==
    /\ book_call.symbol = "BTC"
    /\ micro["BTC"].current_obi = book_call.obi
    /\ book_call.obi.num > 0
    /\ book_call.obi.num * 3 = book_call.obi.den
    /\ Len(book_call.bids) > OBI_DEPTH_LEVELS
    /\ Len(book_call.asks) = MaxLevels

C17_WeightsSumToOne ==
    LET w == score_call.weights
        x == score_call.components
    IN  /\ w.obi + w.vpin + w.momentum + w.regime + w.sentiment + w.funding + w.volatility
              = w.den
        /\ score_call.action # "-" =>
              /\ w.sentiment = 0 <=> x.sentiment = 0
              /\ w.funding = 0 <=> x.funding = 0
              /\ w.obi * 100 >= ENSEMBLE_WEIGHTS.obi * w.den

\* the sentiment is absent and the funding is not: the weight of the OBI is
\* raised and the weights sum to 1
C17_Witness ==
    /\ score_call.action # "-"
    /\ score_call.components.sentiment = 0
    /\ score_call.components.funding # 0
    /\ score_call.weights.obi * 100 > ENSEMBLE_WEIGHTS.obi * score_call.weights.den

\* obi = 1, vpin = 0, momentum = 0.5, regime = 1, no sentiment, no funding,
\* volatility = 0
FusionExample ==
    /\ score_call.action # "-"
    /\ score_call.components.obi = SignalScale
    /\ score_call.components.vpin = 0
    /\ score_call.components.momentum * 2 = SignalScale
    /\ score_call.components.regime = SignalScale
    /\ score_call.components.sentiment = 0
    /\ score_call.components.funding = 0
    /\ score_call.components.volatility = 0

\* C18 as stated: on the example compute_final_score returns a score of
\* about 0.738 (within 0.001) and the action strong_buy.
C18_ExampleStrongBuy ==
    FusionExample =>
        /\ score_call.action = "strong_buy"
        /\ 737 * score_call.score.den <= score_call.score.num * 1000
        /\ score_call.score.num * 1000 <= 739 * score_call.score.den

\* C18: on the example compute_final_score returns the score 0.65625
\* (= 1.25 x (0.30 + 0.15 x 0.5 + 0.15) = 21/32) and the action buy.
C18_ExampleBuy ==
    FusionExample =>
        /\ score_call.action = "buy"
        /\ score_call.score.num * 32 = 21 * score_call.score.den

\* the example has been computed
C18_Witness == FusionExample /\ score_call.weights.den = 100 * 80


\* The cooldown test of can_enter in a second engine that is fed the same events
\* and exchange answers ReplaySlowdown times slower: every reading of its clock
\* is ReplaySlowdown times the reading of the first engine, so its breaker fired
\* at ReplaySlowdown * (cooldown_until - COOLDOWN_SECONDS).
ReplayInCooldown ==
    /\ cooldown_until > 0
    /\ ReplaySlowdown * now
         < ReplaySlowdown * (cooldown_until - COOLDOWN_SECONDS) + COOLDOWN_SECONDS

\* C19 as stated: two engines started from the initial state and fed the same
\* order-book and trade events, with the same exchange answers, make the same
\* entry decisions: whenever the first engine's can_enter answers, the second
\* engine, which has seen the same events at its own pace, refuses for the
\* cooldown exactly when the first one does.
C19_ReplayDeterministic ==
    [][\A t \in Tasks :
         Returns(t, "entry_cash")
         => ((can_result'[t].result.reason = "cooldown") <=> ReplayInCooldown)]_vars


\* the step in which the second subscription has been sent
Subscribed == ws.pc = "subscribe_transaction" /\ ws'.pc = "stream"
\* the sleep at the bottom of the loop
Sleeps == ws.pc = "wait" /\ ws'.pc = "connect"

\* C20 as stated: the reconnect delay starts at 1 s, is always within [1, 30],
\* doubles up to 30 s with each wait, and goes back to 1 s only in the step that
\* completes the subscription, never for a connection that has not sent both
\* subscriptions: the wait after a pass that did not subscribe is the double of
\* the wait before it, up to the cap.
C20_ResetOnlyAfterSubscription ==
    /\ ws.reconnect_delay = ReconnectDelayStart
    /\ [](ws.reconnect_delay \in ReconnectDelayStart..ReconnectDelayCap)
    /\ [][Sleeps => ws'.reconnect_delay = Min(2 * ws.reconnect_delay, ReconnectDelayCap)]_vars
    /\ [][ws'.reconnect_delay < ws.reconnect_delay => Subscribed]_vars
    /\ [][Sleeps /\ ~ws.subscribed /\ ws.waits # <<>>
            => ws.reconnect_delay
                 = Min(2 * ws.waits[Len(ws.waits)], ReconnectDelayCap)]_vars


\* the step in which a message of one of the two event types was dispatched
Dispatches == ws'.dispatched = ws.dispatched + 1 /\ ws'.last.event # "other"

\* C21: for each dispatched message every handler registered for its event type
\* is invoked exactly once, in registration order, whichever handlers raise; and
\* the streaming loop stays in its message loop, connected, without a wait.
C21_DispatchInOrder ==
    [][Dispatches
        => /\ ws'.last.invoked = ws.callbacks[ws'.last.event]
           /\ ws'.pc = "stream" /\ ws'.connected
           /\ ws'.waits = ws.waits /\ ws'.reconnect_delay = ws.reconnect_delay
           /\ ws'.callbacks = ws.callbacks]_vars

\* three handlers of transaction, the first of which raised, and all three invoked
C21_Witness ==
    /\ ws.last.event = "transaction"
    /\ ws.callbacks.transaction = <<"_on_transaction", "h2", "h1">>
    /\ 1 \in ws.last.raised
    /\ Len(ws.last.invoked) = 3
    /\ ws.pc = "stream"


\* C22: without the API key or the secret every private call returns status
\* 9999 and posts nothing, no handler of the engine ever has a private request
\* in flight or an order answered otherwise, and no position is registered.
C22_NoKeysNoRequest ==
    ~keys_configured
    => /\ private_call # NoPrivateCall
            => ~private_call.requested /\ private_call.status = "9999"
       /\ \A t \in Tasks : inflight[t] = NoReq /\ order_result[t] \in {"-", "9999"}
       /\ Held = {} /\ trade_history = <<>>

\* without keys: an order was placed directly and answered 9999, and the engine
\* has refused a buy signal on the cash of a balance call that posted nothing
C22_Witness ==
    /\ ~keys_configured
    /\ private_call.endpoint = "/trade/place" /\ private_call.status = "9999"
    /\ can_result[1].symbol = "BTC" /\ ~can_result[1].result.can
    /\ can_result[1].available_cash = 0


\* C23 as stated: a public call never raises to its caller, so the initial load
\* never raises either, and a response whose status is not 0000, a transport
\* failure and a parse failure all give the empty result.
C23_PublicNeverRaises ==
    /\ ~public_call.result.raised
    /\ initial_data.pc # "raised"
    /\ (public_call.endpoint # "-" /\ public_call.outcome.status # "0000")
         => public_call.result.value \in {"{}", "[]"}


\* a reconnect attempt, a subscription or a funding poll
LoopActivity ==
    \/ ws.pc = "connect" /\ ws'.pc \in {"subscribe_orderbook", "wait"}
    \/ ws.pc = "subscribe_orderbook" /\ ws'.pc \in {"subscribe_transaction", "wait"}
    \/ ws.pc = "subscribe_transaction" /\ ws'.pc \in {"stream", "wait"}
    \/ funding_loop = "check" /\ funding_loop' = "sleep"

\* C24 as stated: once the running flag is cleared, from some point on there
\* is no reconnect attempt, no subscription and no funding poll. (Nothing in
\* these behaviours sets the flag again, so "from some point on, no such step
\* with the flag cleared" says the same.)
C24_LoopsStop == <>[][~running => ~LoopActivity]_vars


\* the await `stage` of tick k returned before place i of the log
ReturnedBefore(i, stage, k) ==
    \E j \in 1..(i - 1) :
        /\ tick_run.log[j].stage = stage /\ tick_run.log[j].tick = k
        /\ ~tick_run.log[j].raised

\* C25: in the handling of a message only ticks with positive price and
\* quantity are handled, in list order and none passed over; the exit of a tick
\* is evaluated after the microstructure, volatility and regime updates of that
\* tick have returned, and sees exactly that tick taken in by all three; the
\* entry of a tick is evaluated after its exit has returned, on the same state.
C25_TickOrder ==
    \A i \in 1..Len(tick_run.log) :
        LET ev == tick_run.log[i]
        IN  /\ tick_run.list[ev.tick]
            /\ i > 1 => tick_run.log[i - 1].tick <= ev.tick
            /\ \A k \in 1..(ev.tick - 1) :
                   tick_run.list[k] => ReturnedBefore(i, "check_entry", k)
            /\ ev.stage \in {"check_exit", "check_entry"}
                 => /\ \A u \in DOMAIN NoAbsorbed :
                          ev.absorbed[u] = ev.tick /\ ReturnedBefore(i, u, ev.tick)
            /\ ev.stage = "check_entry" => ReturnedBefore(i, "check_exit", ev.tick)

\* a message of three ticks, the second of them skipped, handled to its end
C25_Witness ==
    /\ tick_run.pc = "idle"
    /\ tick_run.list = <<TRUE, FALSE, TRUE>>
    /\ Len(tick_run.log) = 10
    /\ tick_run.log[10].stage = "check_entry" /\ tick_run.log[10].tick = 3
    /\ ~tick_run.log[10].raised


\* The exit evaluation with its steps in the order the specification lists
\* them: the stop-loss test first, then the high, the activation and the
\* trailing stop.
UpdatePrice_ListedOrder(pos, current_price, rv_in, trailing_mult) ==
    LET pnl_pct == PnlPct(pos, current_price)
        rv == Max(rv_in, RV_FLOOR)
        stopped == current_price * 1000 <= pos.entry_price * (1000 - STOP_LOSS_MULTIPLIER * rv)
    IN  IF stopped
        THEN [pos |-> pos, action |-> "stop_loss", pnl_pct |-> pnl_pct]
        ELSE LET highest == Max(pos.highest_price, current_price)
                 activates == (current_price - pos.entry_price) * 1000
                                 >= TRAILING_ACTIVATION_PCT * pos.entry_price
                 trailing == pos.trailing_active \/ activates
                 trailed == current_price * 4000
                               <= highest * (4000 - TRAILING_OFFSET_MULTIPLIER * rv * trailing_mult)
             IN  [pos |-> [pos EXCEPT !.highest_price = highest, !.trailing_active = trailing],
                  action |-> IF trailing /\ trailed THEN "trailing_stop" ELSE "none",
                  pnl_pct |-> pnl_pct]

\* C26: an update_price call at or below entry x (1 - 2 x max(rv, 0.005))
\* returns stop_loss, also when the trailing stop is active and the price is
\* under it, and leaves trailing_active as it was; and every call returns the
\* action and leaves the position that the evaluation in the listed order, with
\* the high updated after the stop-loss test, would.
C26_StopLossFirst ==
    [][\A s \in Held :
         UpdateStep(s)
         => LET pos == positions[s]
                c == update_call'
                rv == Max(c.realized_volatility, RV_FLOOR)
                listed == UpdatePrice_ListedOrder(pos, c.current_price,
                                                  c.realized_volatility, c.trailing_mult)
            IN  /\ c.current_price * 1000
                      <= pos.entry_price * (1000 - STOP_LOSS_MULTIPLIER * rv)
                     => /\ c.action = "stop_loss"
                        /\ positions'[s].trailing_active = pos.trailing_active
                /\ c.action = listed.action
                /\ positions'[s] = listed.pos]_vars

\* stop_loss was returned while the trailing stop was active and the price was
\* under the trailing stop as well
C26_Witness ==
    /\ "BTC" \in Held
    /\ update_call.action = "stop_loss"
    /\ positions["BTC"].trailing_active
    /\ update_call.current_price * 4000
          <= positions["BTC"].highest_price
               * (4000 - TRAILING_OFFSET_MULTIPLIER
                           * Max(update_call.realized_volatility, RV_FLOOR)
                           * update_call.trailing_mult)


\* C27: a _check_entry call on a symbol whose current VPIN is at or over 0.80
\* places no bid, whatever the other signals, the score and the action are.
C27_NoBidUnderVpinWarning ==
    entry_call.current_vpin >= VPIN_DANGER_THRESHOLD => ~entry_call.bid

\* a call at a VPIN of exactly 0.80 whose ensemble answer is a strong buy that
\* the risk manager would approve: the warning is up and no bid is placed
C27_Witness ==
    /\ entry_call.current_vpin = VPIN_DANGER_THRESHOLD
    /\ ~entry_call.held
    /\ entry_call.result.action = "strong_buy"
    /\ entry_call.result.vpin_warning
    /\ entry_call.approved
    /\ ~entry_call.bid


\* the update_orderbook call of a step is one the analyzer takes in: both sides
\* have a level and the quantities summed over the depth are not all zero
TakenIn(c) ==
    LET depth == Min(OBI_DEPTH_LEVELS, Min(Len(c.bids), Len(c.asks)))
    IN  depth > 0 /\ SumDepth(c.bids, depth) + SumDepth(c.asks, depth) # 0

\* C28: an update of a symbol that is taken in and is not its first appends one
\* OFI, dBid - dAsk, where dBid is the best bid quantity if the best bid price
\* rose against the previous update taken in, the change of quantity if it
\* stood, minus the previous quantity if it fell, and dAsk is the same with the
\* ask price falling, standing, rising; the first update appends none; and
\* every update taken in leaves its top of book as the previous one of the next.
C28_OfiTopOfBookRule ==
    [][LET c == book_call'
           old == micro[c.symbol]
           new == micro'[c.symbol]
       IN  /\ \A s \in TARGET_SYMBOLS \ {c.symbol} : micro'[s] = micro[s]
           /\ ~TakenIn(c) => new = old
           /\ TakenIn(c) =>
                LET qty_bid == c.bids[1]
                    qty_ask == c.asks[1]
                    d_bid == IF c.best_bid_price > old.prev_best_bid_price THEN qty_bid
                             ELSE IF c.best_bid_price < old.prev_best_bid_price
                             THEN 0 - old.prev_best_bid_qty
                             ELSE qty_bid - old.prev_best_bid_qty
                    d_ask == IF c.best_ask_price < old.prev_best_ask_price THEN qty_ask
                             ELSE IF c.best_ask_price > old.prev_best_ask_price
                             THEN 0 - old.prev_best_ask_qty
                             ELSE qty_ask - old.prev_best_ask_qty
                IN  /\ new.prev_best_bid_price = c.best_bid_price
                    /\ new.prev_best_ask_price = c.best_ask_price
                    /\ new.prev_best_bid_qty = qty_bid
                    /\ new.prev_best_ask_qty = qty_ask
                    /\ IF old = NewMicroState
                       THEN new.ofi_history = <<>> /\ new.current_ofi = 0
                       ELSE /\ new.ofi_history = Append(old.ofi_history, d_bid - d_ask)
                            /\ new.current_ofi = d_bid - d_ask]_vars

\* the third update of BTC taken in: the best bid has risen to 100 with a
\* quantity of 2 and the best ask has risen to 103 leaving a quantity of 1
\* behind, so the OFI is 2 - (-1), after a negative one
C28_Witness ==
    /\ book_call.symbol = "BTC"
    /\ book_call.best_bid_price = 100
    /\ book_call.best_ask_price = 103
    /\ book_call.bids = <<2>>
    /\ Len(micro["BTC"].ofi_history) = MaxOfi
    /\ micro["BTC"].ofi_history[1] < 0
    /\ micro["BTC"].current_ofi = 3
    /\ micro["ETH"].ofi_history # <<>>


\* C29: a get_signal call on the volatility model returns -1.0 on a realized
\* volatility of 0.05 or more, -0.5 from 0.03 up to 0.05, 0 from 0.01 up to
\* 0.03 (the volatility of a new model included) and +0.5 under 0.01.
C29_VolatilityStepFunction ==
    LET rv == estimators.signal_call.current_rv
        signal == estimators.signal_call.signal
    IN  estimators.signal_call.called =>
            /\ rv >= 50 => signal = 0 - SignalScale
            /\ rv >= 30 /\ rv < 50 => signal = 0 - (SignalScale \div 2)
            /\ rv >= 10 /\ rv < 30 => signal = 0
            /\ rv < 10 => signal = SignalScale \div 2

\* the step is an update_price call of the volatility model whose refit raised
GarchRefitRaised ==
    /\ estimators.pc = "volatility"
    /\ estimators'.pc = "regime"
    /\ estimators'.volatility.refit
    /\ estimators'.volatility.raised_at # "-"

\* the step is an update_price call of the regime detector whose refit raised
HmmRefitRaised ==
    /\ estimators.pc = "regime"
    /\ estimators'.pc = "volatility"
    /\ estimators'.regime.refit
    /\ estimators'.regime.raised_at # "-"

\* C30: an update_price call whose refit raises, at whatever step, leaves the
\* estimates as they were - the regime and the stored model of the regime
\* detector, the conditional and the forecast volatility of the volatility
\* model - and returns, so that the tick goes on to the next estimator.
C30_FailedRefitKeepsEstimates ==
    [][/\ GarchRefitRaised =>
            /\ estimators'.volatility.current_garch_vol
                    = estimators.volatility.current_garch_vol
            /\ estimators'.volatility.forecast_vol = estimators.volatility.forecast_vol
       /\ HmmRefitRaised =>
            /\ estimators'.regime.current_regime = estimators.regime.current_regime
            /\ estimators'.regime.model = estimators.regime.model]_vars


\* the step is a daily_reset call
Resets ==
    /\ risk_call'.fn = "daily_reset"
    /\ risk_call' # risk_call \/ daily_pnl_history' # daily_pnl_history

\* C31: a daily_reset call appends daily_pnl / MAX_TOTAL_CAPITAL to the daily
\* history (which holds 100 entries at most), sets daily_pnl to 0, empties the
\* day's trades, sets consecutive_losses to 0 and returns the day's pnl, its
\* ratio, the number of trades, of wins and of losses as they were before; the
\* positions, the trade history and cooldown_until are left as they were.
C31_DailyResetEffect ==
    [][Resets =>
        LET summary == risk_call'.summary[1]
            pct == daily_pnl \div (MAX_TOTAL_CAPITAL_KRW \div 10000)
        IN  /\ Len(daily_pnl_history') = Min(Len(daily_pnl_history) + 1, DAILY_HISTORY_MAXLEN)
            /\ daily_pnl_history'[Len(daily_pnl_history')] = pct
            /\ \A i \in 1..(Len(daily_pnl_history') - 1) :
                  daily_pnl_history'[i]
                      = daily_pnl_history[i + Len(daily_pnl_history) + 1
                                              - Len(daily_pnl_history')]
            /\ daily_pnl' = 0
            /\ daily_trades' = <<>>
            /\ consecutive_losses' = 0
            /\ summary.daily_pnl = daily_pnl
            /\ summary.daily_pnl_pct = pct
            /\ summary.trades = Len(daily_trades)
            /\ summary.wins + summary.losses = Len(daily_trades)
            /\ summary.wins
                  = Cardinality({i \in 1..Len(daily_trades) : daily_trades[i].pnl > 0})
            /\ positions' = positions
            /\ trade_history' = trade_history
            /\ cooldown_until' = cooldown_until]_vars

\* a reset has been made after three losing closes that tripped the breaker,
\* with a position open: the counter is back at 0, the cooldown still stands
C31_Witness ==
    /\ risk_call.fn = "daily_reset"
    /\ risk_call.summary[1].losses = MAX_CONSECUTIVE_LOSSES
    /\ risk_call.summary[1].daily_pnl < 0
    /\ daily_pnl = 0
    /\ daily_trades = <<>>
    /\ consecutive_losses = 0
    /\ cooldown_until > 0
    /\ Held # {}
    /\ Len(trade_history) = MAX_CONSECUTIVE_LOSSES


\* C32: consecutive_losses goes down only in a close with pnl >= 0 or in a
\* daily_reset - not when the cooldown expires, nor in can_enter - and a
\* losing close made with the counter at 3 or more sets cooldown_until to
\* now + 1800 again, also after the cooldown has expired.
C32_CounterOutlivesCooldown ==
    [][/\ consecutive_losses' < consecutive_losses =>
            \/ Closes /\ LastTrade.pnl >= 0
            \/ daily_pnl_history' # daily_pnl_history
       /\ LosingClose /\ consecutive_losses >= MAX_CONSECUTIVE_LOSSES =>
            /\ consecutive_losses' = consecutive_losses + 1
            /\ cooldown_until' = now + COOLDOWN_SECONDS]_vars

\* the fourth losing close in a row, made after the cooldown of the third had
\* expired: it has set a new cooldown
C32_Witness ==
    /\ risk_call.fn = "close_position"
    /\ risk_call.record # <<>>
    /\ ~risk_call.is_cooldown
    /\ consecutive_losses = MAX_CONSECUTIVE_LOSSES + 1
    /\ Len(daily_trades) = MAX_CONSECUTIVE_LOSSES + 1
    /\ cooldown_until = now + COOLDOWN_SECONDS


\* one of the two entry gates of can_enter is closed
GateClosed == now < cooldown_until \/ daily_pnl <= CapitalPct(DAILY_CVAR_LIMIT)
\* the handler t takes a tick of a target symbol in
TakesTick(t) ==
    /\ pc[t] \in {"idle", "tick"}
    /\ pc'[t] # "idle"
    /\ <<pc'[t], frame'[t]>> # <<pc[t], frame[t]>>

\* C33: while now < cooldown_until, and while the day's loss is at its limit,
\* no market bid is placed for any symbol; a tick of a held symbol is still
\* exit-evaluated, an exit action places a market ask for the position's
\* quantity, and the acknowledged ask closes the position.
C33_GatesBlockEntriesOnly ==
    [][\A t \in Tasks :
          /\ GateClosed => ~(pc[t] # "entry_order" /\ pc'[t] = "entry_order")
          /\ GateClosed /\ TakesTick(t) /\ frame'[t].symbol \in Held =>
                LET s == frame'[t].symbol
                IN  /\ \E tx \in GatesFeed.ticks, rv \in GatesFeed.rvs, reg \in GatesFeed.regimes :
                          LET upd == UpdatePrice(positions[s], tx.price, rv,
                                                 REGIME_PARAMS[reg].trailing_mult)
                          IN  /\ exit_signal'[t] = [action |-> upd.action,
                                                     pnl_pct |-> upd.pnl_pct]
                              /\ positions'[s] = upd.pos
                    /\ exit_signal'[t].action # "none" /\ keys_configured =>
                          /\ pc'[t] = "exit_order"
                          /\ inflight'[t] = Order(s, "ask", positions[s].quantity)
          /\ GateClosed /\ Returns(t, "exit_order") /\ order_result'[t] = "0000" =>
                /\ Closes
                /\ LastTrade.symbol = frame[t].symbol
                /\ frame[t].symbol \notin DOMAIN positions']_vars

\* after three losses started the cooldown and the day was reset, a position
\* still held was stopped out and closed inside the cooldown
C33_Witness ==
    /\ now < cooldown_until
    /\ Len(daily_pnl_history) = 1
    /\ Len(daily_trades) = 1
    /\ daily_trades[1].pnl < 0
    /\ consecutive_losses = 1
    /\ order_result[1] = "0000"


\* C34: no order is placed with a quantity of 0 or less, and no position is
\* registered with one: when can_enter allows an entry with max_amount 0 (the
\* Kelly fraction clamped to 0), the entry decision ends the tick with no
\* request sent and no position registered.
C34_NoOrderOfNothing ==
    [][\A t \in Tasks :
          /\ inflight'[t].kind = "order" => inflight'[t].quantity > 0
          /\ \A s \in DOMAIN positions' : positions'[s].quantity > 0
          /\ /\ Returns(t, "entry_cash")
             /\ can_result'[t].result.can
             /\ can_result'[t].result.max_amount = 0
             => /\ pc'[t] = "tick"
                /\ inflight'[t] = NoReq
                /\ positions' = positions]_vars

\* after a history of one win and nineteen losses and past its cooldown,
\* can_enter has allowed an entry of 0 KRW and the tick has ended there
C34_Witness ==
    /\ Len(trade_history) >= KELLY_MIN_TRADES_FOR_CALC
    /\ CalcKellyFraction(trade_history) = 0
    /\ can_result[1].result = [can |-> TRUE, reason |-> "ok", max_amount |-> 0]
    /\ pc[1] = "tick"
    /\ inflight[1] = NoReq
    /\ Held = {}
    /\ now >= cooldown_until


RECURSIVE SumPnl(_)
SumPnl(trades) == IF trades = <<>> THEN 0 ELSE Head(trades).pnl + SumPnl(Tail(trades))

\* C35: in every reachable state of the risk manager daily_pnl is the sum of
\* the pnl of the records of the day's list, and the day's list is the end of
\* the trade history (the ring of 1000 has evicted nothing here): every
\* record of the day was also appended to the history.
C35_DailyPnlIsSumOfDayList ==
    /\ daily_pnl = SumPnl(daily_trades)
    /\ Len(daily_trades) <= Len(trade_history)
    /\ \A i \in 1..Len(daily_trades) :
          daily_trades[i] = trade_history[Len(trade_history) - Len(daily_trades) + i]

\* a day of two losing closes after a reset that ended a day of one close
C35_Witness ==
    /\ Len(daily_pnl_history) = 1
    /\ Len(trade_history) = 3
    /\ Len(daily_trades) = 2
    /\ daily_trades[1].pnl < 0
    /\ daily_pnl = 2 * daily_trades[1].pnl


\* a call of close_position has returned
CloseReturns == risk_call' # risk_call /\ risk_call'.fn = "close_position"

\* C36: close_position for a symbol with no registered position returns None
\* and changes no field of the risk state; for a registered one it returns
\* the record, appends it once and removes the position - so the second of
\* two closes of the same position records nothing and counts nothing.
C36_CloseOfNothing ==
    [][CloseReturns =>
          IF risk_call'.symbol \in Held
          THEN /\ risk_call'.record # <<>>
               /\ Closes
               /\ LastTrade = risk_call'.record[1]
               /\ daily_pnl' = daily_pnl + LastTrade.pnl
               /\ risk_call'.symbol \notin DOMAIN positions'
          ELSE /\ risk_call'.record = <<>>
               /\ UNCHANGED riskVars]_vars

\* the position was closed at a loss and closed again: the second call
\* returned None, and there is one trade, its pnl and one loss
C36_Witness ==
    /\ risk_call.fn = "close_position"
    /\ risk_call.record = <<>>
    /\ Held = {}
    /\ Len(trade_history) = 1
    /\ trade_history[1].symbol = risk_call.symbol
    /\ trade_history[1].pnl < 0
    /\ daily_pnl = trade_history[1].pnl
    /\ consecutive_losses = 1


\* a call of update_orderbook has returned
BookReturns == book_call' # book_call /\ book_call'.signal = <<>>

\* C37: an update with an empty bid or ask side, or with quantities that sum
\* to 0 over the depth, returns 0 and leaves current_obi, obi_history,
\* obi_sma, current_ofi and the previous top of book of the symbol as they
\* were, so that get_obi_signal reports what it reported before; and the next
\* update taken in computes its OFI against the top of book the state still
\* holds, that of the last update taken in.
C37_UnusableBookLeavesState ==
    [][BookReturns =>
        LET c == book_call'
            old == micro[c.symbol]
            new == micro'[c.symbol]
        IN  /\ ~TakenIn(c) =>
                /\ c.obi = Frac(0, 1)
                /\ new.current_obi = old.current_obi
                /\ new.obi_history = old.obi_history
                /\ new.obi_sma = old.obi_sma
                /\ new.current_ofi = old.current_ofi
                /\ new.ofi_history = old.ofi_history
                /\ new.prev_best_bid_price = old.prev_best_bid_price
                /\ new.prev_best_bid_qty = old.prev_best_bid_qty
                /\ new.prev_best_ask_price = old.prev_best_ask_price
                /\ new.prev_best_ask_qty = old.prev_best_ask_qty
                /\ GetObiSignal(new) = GetObiSignal(old)
            /\ TakenIn(c) /\ ~TakenIn(book_call) /\ book_call.symbol = c.symbol =>
                LET d_bid == IF c.best_bid_price > old.prev_best_bid_price THEN c.bids[1]
                             ELSE IF c.best_bid_price < old.prev_best_bid_price
                             THEN 0 - old.prev_best_bid_qty
                             ELSE c.bids[1] - old.prev_best_bid_qty
                    d_ask == IF c.best_ask_price < old.prev_best_ask_price THEN c.asks[1]
                             ELSE IF c.best_ask_price > old.prev_best_ask_price
                             THEN 0 - old.prev_best_ask_qty
                             ELSE c.asks[1] - old.prev_best_ask_qty
                IN  /\ new.current_ofi = d_bid - d_ask
                    /\ new.obi_history = Append(old.obi_history, c.obi)]_vars

\* after the update that gave BTC its first moving average and an OFI, a
\* book with no ask side has come and gone: the OBI, its average and the OFI
\* stand
C37_Witness ==
    /\ book_call.symbol = "BTC"
    /\ book_call.signal = <<>>
    /\ book_call.bids # <<>>
    /\ book_call.asks = <<>>
    /\ book_call.obi = Frac(0, 1)
    /\ Len(micro["BTC"].obi_history) = OBI_LOOKBACK
    /\ micro["BTC"].current_obi.num # 0
    /\ micro["BTC"].obi_sma.num # 0
    /\ micro["BTC"].current_ofi # 0
    /\ GetObiSignal(micro["BTC"]).is_strong_buy


\* C38: every tick a run takes, of BTC or of ETH, appends its price to the one
\* window of the volatility model and to the one window of the regime
\* detector, and the exit evaluation of a BTC tick uses the realized
\* volatility and the regime those windows give - so the ETH ticks of a run
\* reach its decisions on BTC.
C38_OneWindowForAllSymbols ==
    [][\A r \in 1..2 :
          runs'[r] # runs[r] =>
            LET old == runs[r]
                new == runs'[r]
                tick == new.last_tick
            IN  /\ tick.symbol \in {"BTC", "ETH"}
                /\ new.volatility.prices = Append(old.volatility.prices, tick.price)
                /\ new.regime.prices = Append(old.regime.prices, tick.price)
                /\ Len(new.volatility.rv_window) = Len(old.volatility.rv_window) + 1
                /\ tick.symbol = "BTC" /\ old.position # <<>> =>
                      new.decisions =
                          Append(old.decisions,
                                 UpdatePrice(old.position[1], tick.price,
                                             new.volatility.current_rv,
                                             REGIME_PARAMS[new.regime.current_regime]
                                                 .trailing_mult).action)]_vars

\* the two runs have taken the same BTC ticks, the second one ETH ticks as
\* well: at the fall of BTC the first run stopped out on the initial
\* volatility, the second, its window holding the jumps between the two
\* symbols' prices, did not
C38_Witness ==
    /\ runs[1].a_ticks = runs[2].a_ticks
    /\ runs[1].b_ticks = 0
    /\ runs[2].b_ticks > 0
    /\ runs[1].decisions[Len(runs[1].decisions)] = "stop_loss"
    /\ runs[2].decisions[Len(runs[2].decisions)] = "none"
    /\ runs[2].volatility.current_rv > runs[1].volatility.current_rv
    /\ runs[1].position = <<>>
    /\ runs[2].position # <<>>


\* the exit actions of update_price
ExitActions == {"stop_loss", "trailing_stop"}

\* C39: the acknowledged ask of a tick of S closes the position at the
\* tick's price and the entry evaluation of the same tick follows: it ends
\* the tick, or on a buy signal goes on to can_enter and to a market bid for
\* S at the same price, whose acknowledgement registers S at that price -
\* the exit price of the trade just closed - and ends the tick; a held
\* position changes only as a tick of its symbol is taken in, so a position
\* registered at a tick is first exit-evaluated at the next tick of S.
C39_ExitThenEntryInOneTick ==
    [][/\ \A t \in Tasks :
            /\ Returns(t, "exit_order") /\ Closes =>
                  /\ LastTrade.symbol = frame[t].symbol
                  /\ LastTrade.exit_price = frame[t].price
                  /\ pc'[t] \in {"tick", "entry_cash"}
                  /\ pc'[t] = "entry_cash" =>
                        /\ frame'[t].symbol = frame[t].symbol
                        /\ frame'[t].price = frame[t].price
                        /\ frame'[t].action \in {"buy", "strong_buy"}
                        /\ exit_signal'[t] = exit_signal[t]
            /\ Returns(t, "entry_cash") /\ pc'[t] = "entry_order" =>
                  /\ frame'[t].price = frame[t].price
                  /\ frame'[t].quantity > 0
                  /\ inflight'[t] = Order(frame[t].symbol, "bid", frame'[t].quantity)
                  /\ exit_signal'[t] = exit_signal[t]
            /\ Returns(t, "entry_order") /\ frame[t].symbol \notin Held
                  /\ frame[t].symbol \in DOMAIN positions' =>
                  /\ positions'[frame[t].symbol]
                        = Position(frame[t].symbol, frame[t].price, frame[t].quantity)
                  /\ pc'[t] = "tick"
                  /\ exit_signal[t].action \in ExitActions =>
                        /\ trade_history # <<>>
                        /\ trade_history[Len(trade_history)].symbol = frame[t].symbol
                        /\ trade_history[Len(trade_history)].exit_price = frame[t].price
       /\ \A s \in Held \cap DOMAIN positions' :
            positions'[s] # positions[s] =>
                \E t \in Tasks : TakesTick(t) /\ frame'[t].symbol = s]_vars

\* in one tick of a symbol its stop loss was acknowledged and the position
\* closed at the tick's price, and the market bid of the same tick for the
\* same symbol is in flight
C39_Witness ==
    /\ pc[1] = "entry_order"
    /\ exit_signal[1].action = "stop_loss"
    /\ inflight[1].side = "bid"
    /\ inflight[1].symbol = frame[1].symbol
    /\ frame[1].symbol \notin Held
    /\ trade_history # <<>>
    /\ trade_history[Len(trade_history)].symbol = frame[1].symbol
    /\ trade_history[Len(trade_history)].exit_price = frame[1].price


\* the ask of an exit has failed and the position is still held
FailedExit ==
    /\ pc[1] = "tick"
    /\ frame[1].symbol \in Held
    /\ exit_signal[1].action \in ExitActions
    /\ order_result[1] \in {"5600", "9999", "EXC"}

\* C40: on every tick of a held symbol at which update_price returns an exit
\* action - also after asks that failed - a market ask for the position's
\* full quantity is placed; and if ticks that meet the exit condition keep
\* arriving and the exchange eventually acknowledges an ask, a position
\* whose exit has failed is eventually closed.
C40_FailedExitRetried ==
    /\ [][\A t \in Tasks :
            /\ TakesTick(t)
            /\ frame'[t].symbol \in Held
            /\ exit_signal'[t].action \in ExitActions
            /\ keys_configured
            => /\ pc'[t] = "exit_order"
               /\ inflight'[t] = Order(frame'[t].symbol, "ask",
                                       positions[frame'[t].symbol].quantity)]_vars
    /\ \A n \in 0..RetryEntries :
          (FailedExit /\ Len(trade_history) = n) ~> (Len(trade_history) > n)

\* the exchange has refused the ask of a stop loss: the position is held and
\* the tick is over
C40_Witness ==
    /\ pc[1] = "tick"
    /\ frame[1].symbol \in Held
    /\ exit_signal[1].action = "stop_loss"
    /\ order_result[1] = "5600"
    /\ keys_configured

====
